---- MODULE Spec2Model ----
(***************************************************************************)
(* NeuraVeil front end: the bulk-prediction run of app/(tabs)/_layout.tsx  *)
(* and the two persisted history logs (AsyncStorage keys predictionHistory *)
(* and bulkPredictionHistory) it shares with app/(tabs)/history.tsx.       *)
(*                                                                         *)
(* Conventions.                                                            *)
(*  - JavaScript runs one handler at a time; a handler is cut at each      *)
(*    await.  One action is one synchronous stretch of a handler.          *)
(*  - AsyncStorage serves its calls one after the other in call order, so  *)
(*    the effect of getItem/setItem/removeItem is taken at the call and    *)
(*    the awaiting code resumes in a later action with the outcome.        *)
(*  - A handler reads the React state of the render it was created in; a   *)
(*    running async handler keeps the values it captured when it started   *)
(*    (assets, modelName, isGrayscaleEnabled, selectedResolution).         *)
(*  - null is the empty sequence for bulkImages (a stored pick always has  *)
(*    at least one asset) and for bulkPrediction (<<>> or <<record>>).     *)
(*  - Probabilities are integers in 1/10000; a confidence sample           *)
(*    (maxProbability * 100) is in 1/10000 percent and a mean after        *)
(*    toFixed(2) is in 1/100 percent (8000 is 80.00).                      *)
(*  - The non-finite numbers the code can compute, and the null that      *)
(*    JSON.stringify writes for them, are three integers below every      *)
(*    finite value of the model: NegativeInfinity, NotANumber, JsonNull.   *)
(*  - A timestamp is the value of the clock at new Date(); the clock moves *)
(*    on between two reads.                                                *)
(***************************************************************************)
EXTENDS Integers, Sequences, FiniteSets, TLC

\* ------------------------------------------------------------- constants

CLASS_LABELS == <<"Glioma", "No Tumor", "Meningioma", "Pituitary">>

MAX_BULK_IMAGES == 500

PREDICTION_HISTORY_CAP == 10

BULK_HISTORY_CAP == 50

\* ---------------------------------------------------------------- bounds

\* Items submitted by all bulk runs of one behaviour.
MaxItems == 3

\* Steps the user takes in one behaviour of the history-modal
\* specification.
MaxModalOps == 4

\* Steps the user takes in one behaviour of the bulk-run specification.
MaxRunOps == 3

\* Steps the user takes in one behaviour of the specification of both
\* screens.
MaxAllOps == 4

\* The steps the user may take where a batch is picked, run and closed.
MaxBatchOps == 4

\* The steps the user may take where one image is classified and listed.
MaxSingleOps == 3

\* The steps the user may take where the settings change during a run.
MaxRequestOps == 6

\* The steps the user may take where two sections are classified at once.
MaxSectionOps == 5

\* --------------------------------------------------------------- helpers

Min(a, b) == IF a < b THEN a ELSE b

Max(a, b) == IF a < b THEN b ELSE a

Range(s) == {s[k] : k \in 1..Len(s)}

\* -Infinity: Math.max() of no arguments.
NegativeInfinity == -1000000

\* NaN: 0 / 0.
NotANumber == -2000000

\* null, as JSON.stringify writes a number that is not finite.
JsonNull == -3000000

\* a + b for numbers that are finite, -Infinity or NaN.
Plus(a, b) ==
  IF a = NotANumber \/ b = NotANumber THEN NotANumber
  ELSE IF a = NegativeInfinity \/ b = NegativeInfinity THEN NegativeInfinity
  ELSE a + b

\* x * 100 for a number that is finite, -Infinity or NaN.
Times100(x) == IF x \in {NegativeInfinity, NotANumber} THEN x ELSE x * 100

RECURSIVE SumSeq(_)
\* s.reduce((a, b) => a + b, 0)
SumSeq(s) == IF s = <<>> THEN 0 ELSE Plus(Head(s), SumSeq(Tail(s)))

RECURSIVE MaxSeq(_)
\* Math.max(...xs) of an array of finite numbers; -Infinity when it is empty.
MaxSeq(s) ==
  IF s = <<>> THEN NegativeInfinity ELSE Max(Head(s), MaxSeq(Tail(s)))

\* Slice taking the element at index end as well.
SliceInclusive(a, begin, end) == SubSeq(a, begin + 1, Min(end + 1, Len(a)))

\* Array.prototype.slice(begin, end) for 0 <= begin, 0 <= end.
Slice(a, begin, end) == SubSeq(a, begin + 1, Min(end, Len(a)))

\* Array.prototype.unshift(x): x becomes element 0.
Unshift(a, x) == <<x>> \o a

\* ---------------------------------------------------------------- inputs

\* What launchImageLibraryAsync can return: n assets, named 1..n.
Assets(n) == [k \in 1..n |-> k]

\* Probability vectors a response can carry (1/10000): two well-formed ones
\* and one of the wrong length.
ProbabilityVectors ==
  { <<9000, 500, 300, 200>>, <<1000, 7000, 1000, 1000>>, <<9000, 1000>> }

\* The JSON bodies of a 2xx /predict response over the vectors given.
\* hasProbability = FALSE is a body without a probability array.
ResponseData(vectors) ==
  [class : Range(CLASS_LABELS) \cup {"Unknown"},
   hasProbability : {TRUE}, probability : vectors]
  \cup
  [class : {"Glioma"}, hasProbability : {FALSE}, probability : {<<>>}]

NoData == [class |-> "", hasProbability |-> FALSE, probability |-> <<>>]

\* Outcomes of the POST to /predict followed by fetchResponse.json():
\* the fetch rejects, the body is no JSON, a non-2xx answer, a 2xx answer.
Responses(vectors) ==
  [kind : {"networkError", "malformedBody", "notOk"}, data : {NoData}]
  \cup [kind : {"ok"}, data : ResponseData(vectors)]

\* The responses used where only the log matters.
FewResponses ==
  { [kind |-> "networkError", data |-> NoData],
    [kind |-> "ok",
     data |-> [class |-> "Glioma", hasProbability |-> TRUE,
               probability |-> <<9000, 500, 300, 200>>]] }

\* ----------------------------------------------------------------- state

VARIABLES
  storage,                \* AsyncStorage: key -> [present, value]
  clock,                  \* the next value new Date() returns
  sections,               \* _layout.tsx: useState<ImageSection[]>
  bulkImages,             \* _layout.tsx: the picked assets, <<>> for null
  bulkPrediction,         \* _layout.tsx: <<>> for null, or <<record>>
  bulkPredictionHistory,  \* _layout.tsx: the in-memory bulk log
  bulkLoading,            \* _layout.tsx
  estimatedTime,          \* _layout.tsx
  isGrayscaleEnabled,     \* _layout.tsx
  selectedResolution,     \* _layout.tsx
  modelName,              \* _layout.tsx
  bulkModalVisible,       \* _layout.tsx
  historyModalVisible,    \* _layout.tsx
  error,                  \* _layout.tsx: "" for null; set, it replaces the screen
  alerts,                 \* Alert.alert calls made so far (titles)
  consoleErrors,          \* console.error calls made so far
  bulkHistoryLoad,        \* loadBulkPredictionHistory of the mount effect
  refresh,                \* refreshBulkPredictionHistory awaiting getItem
  runs,                   \* the processBulkImages calls, in start order
  uploads,                \* the uploadImage call of each section
  history,                \* history.tsx: the in-memory single log
  isLoading,              \* history.tsx
  historyLoad,            \* history.tsx: loadHistory of the mount effect
  reset,                  \* history.tsx: resetHistory awaiting removeItem
  itemsLeft,              \* bound: items bulk runs may still submit
  opsLeft                 \* bound: steps the user may still take

vars ==
  <<storage, clock, sections, bulkImages, bulkPrediction,
    bulkPredictionHistory, bulkLoading, estimatedTime, isGrayscaleEnabled,
    selectedResolution, modelName, bulkModalVisible, historyModalVisible,
    error, alerts, consoleErrors, bulkHistoryLoad, refresh, runs, uploads,
    history, isLoading, historyLoad, reset, itemsLeft, opsLeft>>

\* The variables no action of the bulk modal or of a bulk run changes.
singleVars ==
  <<sections, error, uploads, history, isLoading, historyLoad, reset>>

\* What the user can touch: with error set App renders the error view alone;
\* a visible modal covers what is under it.
MainShown == error = "" /\ ~bulkModalVisible

BulkModalShown == error = "" /\ bulkModalVisible /\ ~historyModalVisible

HistoryModalShown == error = "" /\ historyModalVisible

\* One more step of the user.
UserStep == opsLeft > 0 /\ opsLeft' = opsLeft - 1

\* ------------------------------------------------------------ AsyncStorage

NoItem == [present |-> FALSE, value |-> <<>>]

Item(v) == [present |-> TRUE, value |-> v]

\* The outcome of await AsyncStorage.getItem(key): the item, or a rejection.
GetItem(key, ok) ==
  IF ok THEN [ok |-> TRUE, item |-> storage[key]]
  ELSE [ok |-> FALSE, item |-> NoItem]

NotRead == [ok |-> FALSE, item |-> NoItem]

\* storedHistory ? JSON.parse(storedHistory) : []
ParseOrEmpty(item) == IF item.present THEN item.value ELSE <<>>

\* ---------------------------------------------------------------- records

\* The results object processBulkImages starts from.
NewResults(model, ts, gray) ==
  [glioma |-> 0, meningioma |-> 0, pituitary |-> 0, noTumor |-> 0,
   modelName |-> model, timestamp |-> ts,
   gliomaAccuracy |-> 0, meningiomaAccuracy |-> 0, pituitaryAccuracy |-> 0,
   noTumorAccuracy |-> 0, isGrayscale |-> gray]

EmptyAccuracies ==
  [glioma |-> <<>>, meningioma |-> <<>>, pituitary |-> <<>>, noTumor |-> <<>>]

\* Math.max(...data.probability) throws when data.probability is no array.
SpreadThrows(data) == ~data.hasProbability

\* TallyResults with the case 'No Tumor' spelled 'NoTumor': the label the
\* server sends matches no case.
TallyResultsMissingNoTumor(results, data) ==
  CASE data.class = "Glioma" -> [results EXCEPT !.glioma = @ + 1]
    [] data.class = "Meningioma" -> [results EXCEPT !.meningioma = @ + 1]
    [] data.class = "Pituitary" -> [results EXCEPT !.pituitary = @ + 1]
    [] data.class = "NoTumor" -> [results EXCEPT !.noTumor = @ + 1]
    [] OTHER -> results

\* TallyResults with a default case that counts any other label as
\* 'No Tumor'.
TallyResultsCountingOthers(results, data) ==
  CASE data.class = "Glioma" -> [results EXCEPT !.glioma = @ + 1]
    [] data.class = "Meningioma" -> [results EXCEPT !.meningioma = @ + 1]
    [] data.class = "Pituitary" -> [results EXCEPT !.pituitary = @ + 1]
    [] OTHER -> [results EXCEPT !.noTumor = @ + 1]

\* The counters after the switch on data.class of a 2xx response.
TallyResults(results, data) ==
  CASE data.class = "Glioma" -> [results EXCEPT !.glioma = @ + 1]
    [] data.class = "Meningioma" -> [results EXCEPT !.meningioma = @ + 1]
    [] data.class = "Pituitary" -> [results EXCEPT !.pituitary = @ + 1]
    [] data.class = "No Tumor" -> [results EXCEPT !.noTumor = @ + 1]
    [] OTHER -> results

\* TallyAccuracies pushing maxProbability as it is, not as a percentage.
TallyAccuraciesUnscaled(accuracies, data) ==
  LET maxProbability == MaxSeq(data.probability) IN
  CASE data.class = "Glioma" ->
         [accuracies EXCEPT !.glioma = Append(@, maxProbability)]
    [] data.class = "Meningioma" ->
         [accuracies EXCEPT !.meningioma = Append(@, maxProbability)]
    [] data.class = "Pituitary" ->
         [accuracies EXCEPT !.pituitary = Append(@, maxProbability)]
    [] data.class = "No Tumor" ->
         [accuracies EXCEPT !.noTumor = Append(@, maxProbability)]
    [] OTHER -> accuracies

\* The sample sequences after the switch on data.class of a 2xx response.
TallyAccuracies(accuracies, data) ==
  LET maxProbability == MaxSeq(data.probability) IN
  CASE data.class = "Glioma" ->
         [accuracies EXCEPT !.glioma = Append(@, Times100(maxProbability))]
    [] data.class = "Meningioma" ->
         [accuracies EXCEPT !.meningioma = Append(@, Times100(maxProbability))]
    [] data.class = "Pituitary" ->
         [accuracies EXCEPT !.pituitary = Append(@, Times100(maxProbability))]
    [] data.class = "No Tumor" ->
         [accuracies EXCEPT !.noTumor = Append(@, Times100(maxProbability))]
    [] OTHER -> accuracies

\* ToFixed2 with the digits after the second decimal cut off.
ToFixed2Truncating(sum, n) ==
  IF sum = NotANumber \/ n = 0 THEN NotANumber
  ELSE IF sum = NegativeInfinity THEN NegativeInfinity
  ELSE sum \div (100 * n)

\* Number((sum / n).toFixed(2)) for sum in 1/10000, in 1/100: the quotient
\* rounded to the nearest hundredth, halves up, for a finite sum >= 0 and
\* n > 0; -Infinity stays -Infinity; NaN, and 0 / 0, give NaN.
ToFixed2(sum, n) ==
  IF sum = NotANumber \/ n = 0 THEN NotANumber
  ELSE IF sum = NegativeInfinity THEN NegativeInfinity
  ELSE (2 * sum + 100 * n) \div (200 * n)

\* MeanAccuracy without the test of samples.length.
MeanAccuracyUnguarded(samples) == ToFixed2(SumSeq(samples), Len(samples))

\* samples.length > 0 ? Number((reduce(+) / length).toFixed(2)) : 0
MeanAccuracy(samples) ==
  IF Len(samples) > 0 THEN ToFixed2(SumSeq(samples), Len(samples)) ELSE 0

\* WithAccuracies that also takes the model name and the grayscale flag of
\* the render current when the loop ends.
WithAccuraciesAndCurrentFlags(results, accuracies) ==
  [results EXCEPT
     !.modelName = modelName,
     !.isGrayscale = isGrayscaleEnabled,
     !.gliomaAccuracy = MeanAccuracy(accuracies.glioma),
     !.meningiomaAccuracy = MeanAccuracy(accuracies.meningioma),
     !.pituitaryAccuracy = MeanAccuracy(accuracies.pituitary),
     !.noTumorAccuracy = MeanAccuracy(accuracies.noTumor)]

\* The four assignments to results.*Accuracy after the loop.
WithAccuracies(results, accuracies) ==
  [results EXCEPT
     !.gliomaAccuracy = MeanAccuracy(accuracies.glioma),
     !.meningiomaAccuracy = MeanAccuracy(accuracies.meningioma),
     !.pituitaryAccuracy = MeanAccuracy(accuracies.pituitary),
     !.noTumorAccuracy = MeanAccuracy(accuracies.noTumor)]

\* BoundedInsert with push in place of unshift.
BoundedInsertAtTail(log, record, cap) == Slice(Append(log, record), 0, cap)

\* BoundedInsert with slice(-cap) in place of slice(0, cap).
BoundedInsertKeepingOldest(log, record, cap) ==
  SubSeq(Unshift(log, record), Max(1, Len(log) + 2 - cap), Len(log) + 1)

\* BoundedInsert without the slice.
BoundedInsertUnbounded(log, record, cap) == Unshift(log, record)

\* history.unshift(record); history = history.slice(0, cap)
BoundedInsert(log, record, cap) == Slice(Unshift(log, record), 0, cap)

\* JSON.parse(JSON.stringify(x)) of a number: null when it is not finite.
JsonNumber(x) == IF x \in {NegativeInfinity, NotANumber} THEN JsonNull ELSE x

\* JSON.parse(JSON.stringify(record)) of a BulkPredictionResult: its
\* counters are finite, its strings and its boolean come back as written.
JsonBulkRecord(record) ==
  [record EXCEPT
     !.gliomaAccuracy = JsonNumber(@),
     !.meningiomaAccuracy = JsonNumber(@),
     !.pituitaryAccuracy = JsonNumber(@),
     !.noTumorAccuracy = JsonNumber(@)]

\* What JSON.stringify(log) holds of a bulk log, as JSON.parse returns it.
StringifyBulk(log) == [k \in 1..Len(log) |-> JsonBulkRecord(log[k])]

\* WithoutTimestamp that drops the first record when none has the timestamp.
WithoutTimestampOrFirst(log, timestamp) ==
  IF \E k \in 1..Len(log) : log[k].timestamp = timestamp
  THEN SelectSeq(log, LAMBDA item : item.timestamp # timestamp)
  ELSE IF log = <<>> THEN log ELSE Tail(log)

\* bulkPredictionHistory.filter(item => item.timestamp !== timestamp)
WithoutTimestamp(log, timestamp) ==
  SelectSeq(log, LAMBDA item : item.timestamp # timestamp)

Timestamps(log) == {log[k].timestamp : k \in 1..Len(log)}

\* A record an earlier session left in the bulk log: a run of one image
\* that classified as Glioma with maximum probability 0.9.
OldBulkRecord(ts) ==
  [NewResults("ModelA", ts, FALSE) EXCEPT !.glioma = 1, !.gliomaAccuracy = 9000]

\* A record an earlier session left in the single-prediction log.
OldPrediction(ts) ==
  [class |-> "Glioma", probability |-> <<9000, 500, 300, 200>>,
   imageUri |-> 0, modelName |-> "ModelA", preprocessFunction |-> "none",
   note |-> "", timestamp |-> ts]

\* The bulk log of n records earlier sessions left, most recent first.
OldBulkLog(n) == [k \in 1..n |-> OldBulkRecord(n + 1 - k)]

\* The single-prediction log of n records earlier sessions left.
OldPredictionLog(n) == [k \in 1..n |-> OldPrediction(n + 1 - k)]

\* ------------------------------------------------------ processBulkImages

BULK_KEY == "bulkPredictionHistory"

SINGLE_KEY == "predictionHistory"

\* The locals of a processBulkImages call that has returned.  The last six
\* fields are not in the code; they record what the call has done: the
\* assets whose pass of the loop has started, the requests posted, the
\* requests not yet answered, and how many items failed (fetch rejected,
\* body unreadable or non-2xx answer), how many 2xx answers carried a label
\* outside CLASS_LABELS, and how many 2xx answers threw in the try block.
DoneRun ==
  [pc |-> "done", assets |-> <<>>, i |-> 0,
   results |-> NewResults("", 0, FALSE), accuracies |-> EmptyAccuracies,
   isGrayscaleEnabled |-> FALSE, selectedResolution |-> "",
   stored |-> NotRead, history |-> <<>>, writeOk |-> FALSE,
   attempted |-> <<>>, posted |-> <<>>, inFlight |-> {},
   failed |-> 0, otherLabel |-> 0, threw |-> 0]

\* The loop body starts on asset k: new FormData(), await fetch(asset.uri).
StartItem(run, k) ==
  [run EXCEPT !.i = k, !.pc = "fetchImage",
              !.attempted = Append(@, run.assets[k])]

\* The locals when the call starts: results, accuracies, and the state the
\* closure captured; then the first pass of the loop.
StartRun ==
  StartItem([DoneRun EXCEPT
               !.assets = bulkImages,
               !.results = NewResults(modelName, clock, isGrayscaleEnabled),
               !.isGrayscaleEnabled = isGrayscaleEnabled,
               !.selectedResolution = selectedResolution], 1)

\* IssuePredict without the await: the POST is sent and the loop goes on to
\* the next asset, when there is one, with the answer outstanding.
IssuePredictNotAwaited(run) ==
  LET sent == [run EXCEPT
                 !.inFlight = @ \cup {run.assets[run.i]},
                 !.posted = Append(@, [asset |-> run.assets[run.i],
                                       isGrayscale |-> run.isGrayscaleEnabled,
                                       resolution |-> run.selectedResolution])]
  IN IF run.i < Len(run.assets)
     THEN [sent EXCEPT !.i = run.i + 1, !.pc = "fetchImage",
                       !.attempted = Append(@, run.assets[run.i + 1])]
     ELSE [sent EXCEPT !.pc = "predict"]

\* IssuePredict reading isGrayscaleEnabled and selectedResolution of the
\* render current when the request is sent, not of the one the call
\* started in.
IssuePredictWithCurrentFlags(run) ==
  [run EXCEPT
     !.pc = "predict",
     !.inFlight = @ \cup {run.assets[run.i]},
     !.posted = Append(@, [asset |-> run.assets[run.i],
                           isGrayscale |-> isGrayscaleEnabled,
                           resolution |-> selectedResolution])]

\* formData.append(...) and the POST to /predict, awaited.
IssuePredict(run) ==
  [run EXCEPT
     !.pc = "predict",
     !.inFlight = @ \cup {run.assets[run.i]},
     !.posted = Append(@, [asset |-> run.assets[run.i],
                           isGrayscale |-> run.isGrayscaleEnabled,
                           resolution |-> run.selectedResolution])]

\* The end of one pass of the loop with locals `run`: the next pass, or
\* after the last asset the means, setBulkPrediction, setBulkLoading(false),
\* setEstimatedTime(0) and the call of getItem.
EndOfItem(r, run) ==
  IF run.i < Len(run.assets)
  THEN /\ runs' = [runs EXCEPT ![r] = StartItem(run, run.i + 1)]
       /\ UNCHANGED <<bulkPrediction, bulkLoading, estimatedTime>>
  ELSE \E readOk \in BOOLEAN :
         LET results == WithAccuracies(run.results, run.accuracies) IN
         /\ bulkPrediction' = <<results>>
         /\ bulkLoading' = FALSE
         /\ estimatedTime' = 0
         /\ runs' = [runs EXCEPT ![r] =
                       [run EXCEPT !.results = results, !.pc = "getItem",
                                   !.stored = GetItem(BULK_KEY, readOk)]]

\* ProcessBulkImages with the button left enabled while bulkLoading.
ProcessBulkImagesWhileLoading ==
  /\ UserStep
  /\ BulkModalShown
  /\ bulkImages # <<>>
  /\ Len(bulkImages) <= itemsLeft
  /\ itemsLeft' = itemsLeft - Len(bulkImages)
  /\ bulkLoading' = TRUE
  /\ clock' = clock + 1
  /\ runs' = Append(runs, StartRun)
  /\ UNCHANGED <<storage, bulkImages, bulkPrediction, bulkPredictionHistory,
                 estimatedTime, isGrayscaleEnabled, selectedResolution,
                 modelName, bulkModalVisible, historyModalVisible, alerts,
                 consoleErrors, bulkHistoryLoad, refresh>>
  /\ UNCHANGED singleVars

\* The "Analiz Et" button of the bulk modal.
ProcessBulkImages ==
  /\ UserStep
  /\ BulkModalShown
  /\ bulkImages # <<>> /\ ~bulkLoading
  /\ Len(bulkImages) <= itemsLeft
  /\ itemsLeft' = itemsLeft - Len(bulkImages)
  /\ bulkLoading' = TRUE
  /\ clock' = clock + 1
  /\ runs' = Append(runs, StartRun)
  /\ UNCHANGED <<storage, bulkImages, bulkPrediction, bulkPredictionHistory,
                 estimatedTime, isGrayscaleEnabled, selectedResolution,
                 modelName, bulkModalVisible, historyModalVisible, alerts,
                 consoleErrors, bulkHistoryLoad, refresh>>
  /\ UNCHANGED singleVars

\* await fetch(asset.uri) and response.blob() settle.
ImageFetched(r) ==
  /\ runs[r].pc = "fetchImage"
  /\ \E ok \in BOOLEAN :
       IF ok
       THEN /\ runs' = [runs EXCEPT ![r] = IssuePredict(runs[r])]
            /\ UNCHANGED <<bulkPrediction, bulkLoading, estimatedTime,
                           consoleErrors>>
       ELSE /\ consoleErrors' = consoleErrors \cup {"Image upload error"}
            /\ EndOfItem(r, [runs[r] EXCEPT !.failed = @ + 1])
  /\ UNCHANGED <<storage, clock, bulkImages, bulkPredictionHistory,
                 isGrayscaleEnabled, selectedResolution, modelName,
                 bulkModalVisible, historyModalVisible, alerts,
                 bulkHistoryLoad, refresh, itemsLeft>>
  /\ UNCHANGED singleVars
  /\ UNCHANGED opsLeft

\* AfterResponse with a break in the handling of a failed call: the loop
\* index jumps to the last asset.
AfterResponseAborting(run, response) ==
  LET back == [run EXCEPT !.inFlight = @ \ {run.assets[run.i]}]
      seen == [back EXCEPT
                 !.otherLabel =
                    IF response.data.class \in Range(CLASS_LABELS)
                    THEN @ ELSE @ + 1]
  IN IF response.kind # "ok"
     THEN [back EXCEPT !.failed = @ + 1, !.i = Len(run.assets)]
     ELSE IF SpreadThrows(response.data)
          THEN [seen EXCEPT !.threw = @ + 1]
          ELSE [seen EXCEPT
                  !.results = TallyResults(@, response.data),
                  !.accuracies = TallyAccuracies(@, response.data)]

\* AfterResponse without the test of fetchResponse.ok in front of the
\* switch, for a server whose error bodies carry class 'No Tumor'.
AfterResponseTallyingErrors(run, response) ==
  LET back == [run EXCEPT !.inFlight = @ \ {run.assets[run.i]}]
      seen == [back EXCEPT
                 !.otherLabel =
                    IF response.data.class \in Range(CLASS_LABELS)
                    THEN @ ELSE @ + 1]
  IN IF response.kind = "notOk"
     THEN [back EXCEPT !.failed = @ + 1, !.results.noTumor = @ + 1]
     ELSE IF response.kind # "ok" THEN [back EXCEPT !.failed = @ + 1]
     ELSE IF SpreadThrows(response.data)
          THEN [seen EXCEPT !.threw = @ + 1]
          ELSE [seen EXCEPT
                  !.results = TallyResults(@, response.data),
                  !.accuracies = TallyAccuracies(@, response.data)]

\* The locals after the try block has handled `response` to the POST.
AfterResponse(run, response) ==
  LET back == [run EXCEPT !.inFlight = @ \ {run.assets[run.i]}]
      seen == [back EXCEPT
                 !.otherLabel =
                    IF response.data.class \in Range(CLASS_LABELS)
                    THEN @ ELSE @ + 1]
  IN IF response.kind # "ok" THEN [back EXCEPT !.failed = @ + 1]
     ELSE IF SpreadThrows(response.data)
          THEN [seen EXCEPT !.threw = @ + 1]
          ELSE [seen EXCEPT
                  !.results = TallyResults(@, response.data),
                  !.accuracies = TallyAccuracies(@, response.data)]

\* Whether the try block ends in the catch (console.error).
Caught(response) ==
  \/ response.kind \in {"networkError", "malformedBody"}
  \/ response.kind = "ok" /\ SpreadThrows(response.data)

\* await fetch(`${SERVER_URL}/predict`) and fetchResponse.json() settle.
PredictReturned(r, response) ==
  /\ runs[r].pc = "predict"
  /\ consoleErrors' = IF Caught(response)
                      THEN consoleErrors \cup {"Image upload error"}
                      ELSE consoleErrors
  /\ EndOfItem(r, AfterResponse(runs[r], response))
  /\ UNCHANGED <<storage, clock, bulkImages, bulkPredictionHistory,
                 isGrayscaleEnabled, selectedResolution, modelName,
                 bulkModalVisible, historyModalVisible, alerts,
                 bulkHistoryLoad, refresh, itemsLeft>>
  /\ UNCHANGED singleVars
  /\ UNCHANGED opsLeft

\* await getItem('bulkPredictionHistory') settles: unshift, slice, setItem.
CommitRead(r) ==
  /\ runs[r].pc = "getItem"
  /\ IF runs[r].stored.ok
     THEN \E writeOk \in BOOLEAN :
            LET log == BoundedInsert(ParseOrEmpty(runs[r].stored.item),
                                     runs[r].results, BULK_HISTORY_CAP) IN
            /\ storage' = IF writeOk
                          THEN [storage EXCEPT
                                  ![BULK_KEY] = Item(StringifyBulk(log))]
                          ELSE storage
            /\ runs' = [runs EXCEPT ![r] =
                          [@ EXCEPT !.pc = "setItem", !.history = log,
                                    !.writeOk = writeOk]]
            /\ UNCHANGED consoleErrors
     ELSE /\ consoleErrors' =
               consoleErrors \cup {"Toplu tahmin gecmisi kaydedilemedi"}
          /\ runs' = [runs EXCEPT ![r] = DoneRun]
          /\ UNCHANGED storage
  /\ UNCHANGED <<clock, bulkImages, bulkPrediction, bulkPredictionHistory,
                 bulkLoading, estimatedTime, isGrayscaleEnabled,
                 selectedResolution, modelName, bulkModalVisible,
                 historyModalVisible, alerts, bulkHistoryLoad, refresh,
                 itemsLeft>>
  /\ UNCHANGED singleVars
  /\ UNCHANGED opsLeft

\* await setItem settles: setBulkPredictionHistory(history), or the catch.
CommitWritten(r) ==
  /\ runs[r].pc = "setItem"
  /\ IF runs[r].writeOk
     THEN /\ bulkPredictionHistory' = runs[r].history
          /\ UNCHANGED consoleErrors
     ELSE /\ consoleErrors' =
               consoleErrors \cup {"Toplu tahmin gecmisi kaydedilemedi"}
          /\ UNCHANGED bulkPredictionHistory
  /\ runs' = [runs EXCEPT ![r] = DoneRun]
  /\ UNCHANGED <<storage, clock, bulkImages, bulkPrediction, bulkLoading,
                 estimatedTime, isGrayscaleEnabled, selectedResolution,
                 modelName, bulkModalVisible, historyModalVisible, alerts,
                 bulkHistoryLoad, refresh, itemsLeft>>
  /\ UNCHANGED singleVars
  /\ UNCHANGED opsLeft

\* ------------------------------------------------- the bulk modal's controls

\* The "Unleash The Neura" button.
OpenBulkModal ==
  /\ UserStep
  /\ MainShown
  /\ bulkModalVisible' = TRUE
  /\ UNCHANGED <<storage, clock, bulkImages, bulkPrediction,
                 bulkPredictionHistory, bulkLoading, estimatedTime,
                 isGrayscaleEnabled, selectedResolution, modelName,
                 historyModalVisible, alerts, consoleErrors, bulkHistoryLoad,
                 refresh, runs, itemsLeft>>
  /\ UNCHANGED singleVars

\* pickBulkImages when the picker returns n >= 1 assets.
PickBulkImages(n) ==
  /\ UserStep
  /\ BulkModalShown /\ ~bulkLoading
  /\ LET result == Assets(n)
         selectedImages == IF Len(result) > MAX_BULK_IMAGES
                           THEN Slice(result, 0, MAX_BULK_IMAGES)
                           ELSE result
     IN /\ bulkImages' = selectedImages
        /\ estimatedTime' = Len(selectedImages) * 2
        /\ alerts' = IF Len(result) > MAX_BULK_IMAGES
                     THEN alerts \cup {"Bilgi"} ELSE alerts
  /\ UNCHANGED <<storage, clock, bulkPrediction, bulkPredictionHistory,
                 bulkLoading, isGrayscaleEnabled, selectedResolution,
                 modelName, bulkModalVisible, historyModalVisible,
                 consoleErrors, bulkHistoryLoad, refresh, runs, itemsLeft>>
  /\ UNCHANGED singleVars

\* The "Kapat" button of the bulk modal.
CloseBulkModal ==
  /\ UserStep
  /\ BulkModalShown
  /\ bulkModalVisible' = FALSE
  /\ bulkImages' = <<>>
  /\ bulkPrediction' = <<>>
  /\ estimatedTime' = 0
  /\ UNCHANGED <<storage, clock, bulkPredictionHistory, bulkLoading,
                 isGrayscaleEnabled, selectedResolution, modelName,
                 historyModalVisible, alerts, consoleErrors, bulkHistoryLoad,
                 refresh, runs, itemsLeft>>
  /\ UNCHANGED singleVars

\* The Grayscale switch (of a section, or of the bulk modal).
ToggleGrayscale ==
  /\ UserStep
  /\ MainShown \/ BulkModalShown
  /\ isGrayscaleEnabled' = ~isGrayscaleEnabled
  /\ UNCHANGED <<storage, clock, bulkImages, bulkPrediction,
                 bulkPredictionHistory, bulkLoading, estimatedTime,
                 selectedResolution, modelName, bulkModalVisible,
                 historyModalVisible, alerts, consoleErrors, bulkHistoryLoad,
                 refresh, runs, itemsLeft>>
  /\ UNCHANGED singleVars

RESOLUTIONS ==
  <<"128x128", "150x150", "160x160", "192x192", "224x224", "299x299">>

\* selectResolution: an item of the resolution list, which is in the model
\* modal the main screen opens.
SelectResolution(resolution) ==
  /\ UserStep
  /\ MainShown
  /\ resolution \in Range(RESOLUTIONS)
  /\ selectedResolution' = resolution
  /\ UNCHANGED <<storage, clock, bulkImages, bulkPrediction,
                 bulkPredictionHistory, bulkLoading, estimatedTime,
                 isGrayscaleEnabled, modelName, bulkModalVisible,
                 historyModalVisible, alerts, consoleErrors, bulkHistoryLoad,
                 refresh, runs, itemsLeft>>
  /\ UNCHANGED singleVars

\* The "Gecmis" button of the bulk modal, disabled while bulkLoading.
OpenHistoryModal ==
  /\ UserStep
  /\ BulkModalShown /\ ~bulkLoading
  /\ historyModalVisible' = TRUE
  /\ UNCHANGED <<storage, clock, bulkImages, bulkPrediction,
                 bulkPredictionHistory, bulkLoading, estimatedTime,
                 isGrayscaleEnabled, selectedResolution, modelName,
                 bulkModalVisible, alerts, consoleErrors, bulkHistoryLoad,
                 refresh, runs, itemsLeft>>
  /\ UNCHANGED singleVars

\* The "Kapat" button of the history modal.
CloseHistoryModal ==
  /\ UserStep
  /\ HistoryModalShown
  /\ historyModalVisible' = FALSE
  /\ UNCHANGED <<storage, clock, bulkImages, bulkPrediction,
                 bulkPredictionHistory, bulkLoading, estimatedTime,
                 isGrayscaleEnabled, selectedResolution, modelName,
                 bulkModalVisible, alerts, consoleErrors, bulkHistoryLoad,
                 refresh, runs, itemsLeft>>
  /\ UNCHANGED singleVars

\* ------------------------------------------------------- the bulk history

Idle == [pc |-> "idle", stored |-> NotRead]

\* loadBulkPredictionHistory: await getItem settles.
BulkHistoryLoaded ==
  /\ bulkHistoryLoad.pc = "getItem"
  /\ bulkHistoryLoad' = [pc |-> "done", stored |-> NotRead]
  /\ IF bulkHistoryLoad.stored.ok
     THEN /\ bulkPredictionHistory' =
               IF bulkHistoryLoad.stored.item.present
               THEN bulkHistoryLoad.stored.item.value
               ELSE bulkPredictionHistory
          /\ UNCHANGED consoleErrors
     ELSE /\ consoleErrors' = consoleErrors \cup {"Gecmis yuklenemedi"}
          /\ UNCHANGED bulkPredictionHistory
  /\ UNCHANGED <<storage, clock, bulkImages, bulkPrediction, bulkLoading,
                 estimatedTime, isGrayscaleEnabled, selectedResolution,
                 modelName, bulkModalVisible, historyModalVisible, alerts,
                 refresh, runs, itemsLeft>>
  /\ UNCHANGED singleVars
  /\ UNCHANGED opsLeft

\* The "Yenile" button of the history modal: getItem is called.  The model
\* keeps at most one refresh outstanding.
RefreshBulkPredictionHistory ==
  /\ UserStep
  /\ HistoryModalShown
  /\ refresh.pc = "idle"
  /\ \E readOk \in BOOLEAN :
       refresh' = [pc |-> "getItem", stored |-> GetItem(BULK_KEY, readOk)]
  /\ UNCHANGED <<storage, clock, bulkImages, bulkPrediction,
                 bulkPredictionHistory, bulkLoading, estimatedTime,
                 isGrayscaleEnabled, selectedResolution, modelName,
                 bulkModalVisible, historyModalVisible, alerts, consoleErrors,
                 bulkHistoryLoad, runs, itemsLeft>>
  /\ UNCHANGED singleVars

\* RefreshReturned with setBulkPredictionHistory([]) in the catch.
RefreshReturnedClearing ==
  /\ refresh.pc = "getItem"
  /\ refresh' = Idle
  /\ IF refresh.stored.ok
     THEN /\ bulkPredictionHistory' = ParseOrEmpty(refresh.stored.item)
          /\ UNCHANGED <<alerts, consoleErrors>>
     ELSE /\ consoleErrors' = consoleErrors \cup {"Gecmis yenilenemedi"}
          /\ alerts' = alerts \cup {"Gecmis yenilenemedi."}
          /\ bulkPredictionHistory' = <<>>
  /\ UNCHANGED <<storage, clock, bulkImages, bulkPrediction, bulkLoading,
                 estimatedTime, isGrayscaleEnabled, selectedResolution,
                 modelName, bulkModalVisible, historyModalVisible,
                 bulkHistoryLoad, runs, itemsLeft>>
  /\ UNCHANGED singleVars
  /\ UNCHANGED opsLeft

\* refreshBulkPredictionHistory: await getItem settles.
RefreshReturned ==
  /\ refresh.pc = "getItem"
  /\ refresh' = Idle
  /\ IF refresh.stored.ok
     THEN /\ bulkPredictionHistory' = ParseOrEmpty(refresh.stored.item)
          /\ UNCHANGED <<alerts, consoleErrors>>
     ELSE /\ consoleErrors' = consoleErrors \cup {"Gecmis yenilenemedi"}
          /\ alerts' = alerts \cup {"Gecmis yenilenemedi."}
          /\ UNCHANGED bulkPredictionHistory
  /\ UNCHANGED <<storage, clock, bulkImages, bulkPrediction, bulkLoading,
                 estimatedTime, isGrayscaleEnabled, selectedResolution,
                 modelName, bulkModalVisible, historyModalVisible,
                 bulkHistoryLoad, runs, itemsLeft>>
  /\ UNCHANGED singleVars
  /\ UNCHANGED opsLeft

\* The delete button of a rendered history item: the filter, the state
\* update and the call of setItem; a rejected setItem (writeOk = FALSE) ends
\* in the catch.
DeleteHistoryItem(timestamp, writeOk) ==
  /\ UserStep
  /\ HistoryModalShown
  /\ timestamp \in Timestamps(bulkPredictionHistory)
  /\ LET updatedHistory == WithoutTimestamp(bulkPredictionHistory, timestamp) IN
     /\ bulkPredictionHistory' = updatedHistory
     /\ IF writeOk
        THEN /\ storage' = [storage EXCEPT
                               ![BULK_KEY] = Item(StringifyBulk(updatedHistory))]
             /\ UNCHANGED <<alerts, consoleErrors>>
        ELSE /\ consoleErrors' = consoleErrors \cup {"Gecmis silinemedi"}
             /\ alerts' = alerts \cup {"Gecmis silinemedi."}
             /\ UNCHANGED storage
  /\ UNCHANGED <<clock, bulkImages, bulkPrediction, bulkLoading,
                 estimatedTime, isGrayscaleEnabled, selectedResolution,
                 modelName, bulkModalVisible, historyModalVisible,
                 bulkHistoryLoad, refresh, runs, itemsLeft>>
  /\ UNCHANGED singleVars

\* ------------------------------------------------------- the bulk views

\* The text of the bulk result view for bulkPrediction: one line per class
\* name with the count and the mean confidence the JSX puts next to it.
RenderBulkPrediction(record) ==
  << [label |-> "Glioma", count |-> record.glioma,
      accuracy |-> record.gliomaAccuracy],
     [label |-> "Meningioma", count |-> record.meningioma,
      accuracy |-> record.meningiomaAccuracy],
     [label |-> "Pituitary", count |-> record.noTumor,
      accuracy |-> record.noTumorAccuracy],
     [label |-> "No Tumor", count |-> record.pituitary,
      accuracy |-> record.pituitaryAccuracy] >>

\* renderBulkPredictionItem: the class lines of an item of the history list.
RenderBulkPredictionItem(item) ==
  << [label |-> "Glioma", count |-> item.glioma,
      accuracy |-> item.gliomaAccuracy],
     [label |-> "Meningioma", count |-> item.meningioma,
      accuracy |-> item.meningiomaAccuracy],
     [label |-> "Pituitary", count |-> item.noTumor,
      accuracy |-> item.noTumorAccuracy],
     [label |-> "No Tumor", count |-> item.pituitary,
      accuracy |-> item.pituitaryAccuracy] >>

\* {bulkPrediction && (...)} in the bulk modal: the lines on the screen.
BulkResultView ==
  IF error = "" /\ bulkModalVisible /\ bulkPrediction # <<>>
  THEN RenderBulkPrediction(bulkPrediction[1])
  ELSE <<>>

\* The FlatList of the history modal: the lines of each item on the screen.
HistoryView ==
  IF error = "" /\ historyModalVisible
  THEN [k \in 1..Len(bulkPredictionHistory) |->
          RenderBulkPredictionItem(bulkPredictionHistory[k])]
  ELSE <<>>

\* ------------------------------------------------------------ uploadImage

\* LAYOUTS '1x1' .. '4x1': the number of sections a layout can have.
MAX_SECTIONS == 4

\* { image: null, prediction: null, isLoading: false }; image 0 is null.
EmptySection == [image |-> 0, prediction |-> <<>>, isLoading |-> FALSE]

\* The locals of an uploadImage call that has returned (or none made).
IdleUpload ==
  [pc |-> "idle", newSections |-> <<>>, asset |-> 0, modelName |-> "",
   newPrediction |-> OldPrediction(0), stored |-> NotRead, writeOk |-> FALSE]

\* The variables no action of a section or of the history screen changes.
bulkVars ==
  <<bulkImages, bulkPrediction, bulkPredictionHistory, bulkLoading,
    estimatedTime, isGrayscaleEnabled, selectedResolution, bulkModalVisible,
    historyModalVisible, bulkHistoryLoad, refresh, runs, itemsLeft>>

\* selectLayout(layout) with parseInt(layout[0]) = numSections.
SelectLayout(numSections) ==
  /\ UserStep
  /\ MainShown
  /\ sections' = [k \in 1..numSections |-> EmptySection]
  /\ UNCHANGED <<storage, clock, error, alerts, consoleErrors, uploads,
                 history, isLoading, historyLoad, reset, modelName>>
  /\ UNCHANGED bulkVars

\* pickImage(index) when the picker returns an asset.
PickImage(index) ==
  /\ UserStep
  /\ MainShown
  /\ index \in 1..Len(sections)
  /\ ~sections[index].isLoading
  /\ sections' = [sections EXCEPT ![index] =
                    [@ EXCEPT !.image = index, !.prediction = <<>>]]
  /\ UNCHANGED <<storage, clock, error, alerts, consoleErrors, uploads,
                 history, isLoading, historyLoad, reset, modelName>>
  /\ UNCHANGED bulkVars

\* newSections after newSections[index] = { ...newSections[index], ...change }
\* for an index the array has.
SetSection(newSections, index, change) ==
  [newSections EXCEPT
     ![index] = [field \in DOMAIN @ |->
                   IF field \in DOMAIN change THEN change[field] ELSE @[field]]]

\* The "Analiz Et" button of a section: isLoading is set and fetch(asset.uri)
\* is called.  The model keeps at most one call per section outstanding.
UploadImage(index) ==
  /\ UserStep
  /\ MainShown
  /\ index \in 1..Len(sections)
  /\ sections[index].image # 0 /\ ~sections[index].isLoading
  /\ uploads[index].pc = "idle"
  /\ LET newSections ==
           SetSection(sections, index,
                      [isLoading |-> TRUE, prediction |-> <<>>])
     IN /\ sections' = newSections
        /\ uploads' = [uploads EXCEPT ![index] =
                         [IdleUpload EXCEPT
                            !.pc = "fetchImage", !.newSections = newSections,
                            !.asset = sections[index].image,
                            !.modelName = modelName]]
  /\ UNCHANGED <<storage, clock, error, alerts, consoleErrors, history,
                 isLoading, historyLoad, reset, modelName>>
  /\ UNCHANGED bulkVars

\* UploadFailed without the reset of isLoading.
UploadFailedStillLoading(index, message, title) ==
  /\ error' = message
  /\ alerts' = alerts \cup {title}
  /\ sections' = uploads[index].newSections
  /\ uploads' = [uploads EXCEPT ![index] = IdleUpload]

\* The catch of uploadImage, and its else branch for a non-2xx answer.
UploadFailed(index, message, title) ==
  LET newSections ==
        SetSection(uploads[index].newSections, index, [isLoading |-> FALSE])
  IN /\ error' = message
     /\ alerts' = alerts \cup {title}
     /\ sections' = newSections
     /\ uploads' = [uploads EXCEPT ![index] = IdleUpload]

\* await fetch(asset.uri) and response.blob() settle.
UploadImageFetched(index) ==
  /\ uploads[index].pc = "fetchImage"
  /\ \E ok \in BOOLEAN :
       IF ok
       THEN /\ uploads' = [uploads EXCEPT ![index].pc = "predict"]
            /\ UNCHANGED <<sections, error, alerts>>
       ELSE UploadFailed(index, "Goruntu yuklenemedi", "Istek Basarisiz")
  /\ UNCHANGED <<storage, clock, consoleErrors, history, isLoading,
                 historyLoad, reset, modelName>>
  /\ UNCHANGED bulkVars
  /\ UNCHANGED opsLeft

\* NewPrediction with a note already in it.
NewPredictionNoted(data, asset, model, ts) ==
  [class |-> data.class, probability |-> data.probability,
   imageUri |-> asset, modelName |-> model,
   preprocessFunction |-> "none", note |-> "a", timestamp |-> ts]

\* The Prediction uploadImage persists for a 2xx answer.
NewPrediction(data, asset, model, ts) ==
  [class |-> data.class, probability |-> data.probability,
   imageUri |-> asset, modelName |-> model,
   preprocessFunction |-> "none", note |-> "", timestamp |-> ts]

\* await fetch(`${SERVER_URL}/predict`) and fetchResponse.json() settle.
UploadPredictReturned(index, response) ==
  /\ uploads[index].pc = "predict"
  /\ IF response.kind = "ok"
     THEN \E readOk \in BOOLEAN :
            LET up == uploads[index]
                shown == [class |-> response.data.class,
                          probability |-> response.data.probability,
                          modelName |-> up.modelName]
                newSections ==
                  SetSection(up.newSections, index,
                             [prediction |-> <<shown>>, isLoading |-> FALSE])
            IN /\ sections' = newSections
               /\ alerts' = alerts \cup {"Basarili"}
               /\ clock' = clock + 1
               /\ uploads' = [uploads EXCEPT ![index] =
                                [up EXCEPT
                                   !.pc = "getItem",
                                   !.newSections = newSections,
                                   !.newPrediction =
                                      NewPrediction(response.data, up.asset,
                                                    up.modelName, clock),
                                   !.stored = GetItem(SINGLE_KEY, readOk)]]
               /\ UNCHANGED error
     ELSE /\ IF response.kind = "notOk"
             THEN UploadFailed(index, "Sunucu hatasi", "Sunucu Hatasi")
             ELSE UploadFailed(index, "Goruntu yuklenemedi", "Istek Basarisiz")
          /\ UNCHANGED clock
  /\ UNCHANGED <<storage, consoleErrors, history, isLoading, historyLoad,
                 reset, modelName>>
  /\ UNCHANGED bulkVars
  /\ UNCHANGED opsLeft

\* await getItem('predictionHistory') settles: unshift, slice, setItem.
UploadRead(index) ==
  /\ uploads[index].pc = "getItem"
  /\ IF uploads[index].stored.ok
     THEN \E writeOk \in BOOLEAN :
            LET log == BoundedInsert(ParseOrEmpty(uploads[index].stored.item),
                                     uploads[index].newPrediction,
                                     PREDICTION_HISTORY_CAP) IN
            /\ storage' = IF writeOk
                          THEN [storage EXCEPT ![SINGLE_KEY] = Item(log)]
                          ELSE storage
            /\ uploads' = [uploads EXCEPT ![index] =
                             [@ EXCEPT !.pc = "setItem", !.writeOk = writeOk]]
            /\ UNCHANGED consoleErrors
     ELSE /\ consoleErrors' =
               consoleErrors \cup {"Tahmin gecmisi kaydedilemedi"}
          /\ uploads' = [uploads EXCEPT ![index] = IdleUpload]
          /\ UNCHANGED storage
  /\ UNCHANGED <<clock, sections, error, alerts, history, isLoading,
                 historyLoad, reset, modelName>>
  /\ UNCHANGED bulkVars
  /\ UNCHANGED opsLeft

\* await setItem settles: the call returns, through the catch when rejected.
UploadWritten(index) ==
  /\ uploads[index].pc = "setItem"
  /\ consoleErrors' = IF uploads[index].writeOk THEN consoleErrors
                      ELSE consoleErrors \cup {"Tahmin gecmisi kaydedilemedi"}
  /\ uploads' = [uploads EXCEPT ![index] = IdleUpload]
  /\ UNCHANGED <<storage, clock, sections, error, alerts, history, isLoading,
                 historyLoad, reset, modelName>>
  /\ UNCHANGED bulkVars
  /\ UNCHANGED opsLeft

\* The "Tekrar Dene" button of the error view.
Retry ==
  /\ UserStep
  /\ error # ""
  /\ error' = ""
  /\ modelName' = "Yukleniyor..."
  /\ sections' = <<EmptySection>>
  /\ UNCHANGED <<storage, clock, alerts, consoleErrors, uploads, history,
                 isLoading, historyLoad, reset>>
  /\ UNCHANGED bulkVars

\* ---------------------------------------------------- formatProbabilities

\* (p * 100).toFixed(2) of a probability p (1/10000): the digits before and
\* after the decimal point.
PercentageToFixed2(p) == [whole |-> p \div 100, hundredths |-> p % 100]

\* Formatted with the fallback only for a vector shorter than the labels.
FormattedUnlessShorter(probabilities, message, percentSignFirst) ==
  IF probabilities = <<>> \/ Len(probabilities) < Len(CLASS_LABELS)
  THEN [message |-> message, lines |-> <<>>, read |-> {}]
  ELSE [message |-> "",
        lines |-> [index \in 1..Len(CLASS_LABELS) |->
                     [label |-> CLASS_LABELS[index],
                      percentage |-> PercentageToFixed2(probabilities[index]),
                      percentSignFirst |-> percentSignFirst]],
        read |-> 1..Len(CLASS_LABELS)]

\* What formatProbabilities returns: the fallback message, or the lines
\* joined by '\n', one per label; `read` is the set of indices of
\* `probabilities` the map callback has read (from 1).  <<>> stands for an
\* absent array as well as for an empty one.
Formatted(probabilities, message, percentSignFirst) ==
  IF probabilities = <<>> \/ Len(probabilities) # Len(CLASS_LABELS)
  THEN [message |-> message, lines |-> <<>>, read |-> {}]
  ELSE [message |-> "",
        lines |-> [index \in 1..Len(CLASS_LABELS) |->
                     [label |-> CLASS_LABELS[index],
                      percentage |-> PercentageToFixed2(probabilities[index]),
                      percentSignFirst |-> percentSignFirst]],
        read |-> 1..Len(CLASS_LABELS)]

\* formatProbabilities of _layout.tsx.
FormatProbabilities(probabilities) ==
  Formatted(probabilities, "Olasiliklar hesaplanamadi.", TRUE)

\* formatProbabilities of history.tsx.
HistoryFormatProbabilities(probabilities) ==
  Formatted(probabilities, "Probabilities could not be calculated.", FALSE)

\* ------------------------------------------------------------- history.tsx

\* The texts typed into a note.
Notes == {"seen", "checked"}

\* The variables of _layout.tsx no action of the history screen changes.
layoutVars ==
  <<clock, sections, error, alerts, uploads, modelName>>

\* The history screen is only reachable with no modal over the tabs.
HistoryScreenShown ==
  historyLoad.pc = "done" /\ ~isLoading /\ ~bulkModalVisible

\* The History screen mounts: its effect calls loadHistory, getItem is called.
MountHistory ==
  /\ UserStep
  /\ historyLoad.pc = "idle"
  /\ ~bulkModalVisible
  /\ \E readOk \in BOOLEAN :
       historyLoad' = [pc |-> "getItem", stored |-> GetItem(SINGLE_KEY, readOk)]
  /\ UNCHANGED <<storage, consoleErrors, history, isLoading, reset>>
  /\ UNCHANGED layoutVars
  /\ UNCHANGED bulkVars

\* loadHistory: await getItem settles; finally setIsLoading(false).
HistoryLoaded ==
  /\ historyLoad.pc = "getItem"
  /\ historyLoad' = [pc |-> "done", stored |-> NotRead]
  /\ isLoading' = FALSE
  /\ IF historyLoad.stored.ok
     THEN /\ history' =
               IF historyLoad.stored.item.present
               THEN Slice(historyLoad.stored.item.value, 0,
                          PREDICTION_HISTORY_CAP)
               ELSE history
          /\ UNCHANGED consoleErrors
     ELSE /\ consoleErrors' = consoleErrors \cup {"Failed to load history"}
          /\ UNCHANGED history
  /\ UNCHANGED <<storage, reset>>
  /\ UNCHANGED layoutVars
  /\ UNCHANGED bulkVars
  /\ UNCHANGED opsLeft

\* The "Yenile" button of the history screen: removeItem is called.  The
\* model keeps at most one reset outstanding.
ResetHistory ==
  /\ UserStep
  /\ HistoryScreenShown
  /\ reset.pc = "idle"
  /\ \E ok \in BOOLEAN :
       /\ storage' = IF ok THEN [storage EXCEPT ![SINGLE_KEY] = NoItem]
                     ELSE storage
       /\ reset' = [pc |-> "removeItem", ok |-> ok]
  /\ UNCHANGED <<consoleErrors, history, isLoading, historyLoad>>
  /\ UNCHANGED layoutVars
  /\ UNCHANGED bulkVars

\* ResetReturned for a removeItem that takes effect when it settles, not
\* when it is called.
ResetReturnedRemoving ==
  /\ reset.pc = "removeItem"
  /\ reset' = [pc |-> "idle", ok |-> FALSE]
  /\ IF reset.ok
     THEN /\ history' = <<>>
          /\ storage' = [storage EXCEPT ![SINGLE_KEY] = NoItem]
          /\ UNCHANGED consoleErrors
     ELSE /\ consoleErrors' = consoleErrors \cup {"Failed to reset history"}
          /\ UNCHANGED <<history, storage>>
  /\ UNCHANGED <<isLoading, historyLoad>>
  /\ UNCHANGED layoutVars
  /\ UNCHANGED bulkVars
  /\ UNCHANGED opsLeft

\* ResetReturned with setHistory([]) after the catch as well.
ResetReturnedClearing ==
  /\ reset.pc = "removeItem"
  /\ reset' = [pc |-> "idle", ok |-> FALSE]
  /\ history' = <<>>
  /\ consoleErrors' = IF reset.ok THEN consoleErrors
                      ELSE consoleErrors \cup {"Failed to reset history"}
  /\ UNCHANGED <<storage, isLoading, historyLoad>>
  /\ UNCHANGED layoutVars
  /\ UNCHANGED bulkVars
  /\ UNCHANGED opsLeft

\* resetHistory: await removeItem settles: setHistory([]), or the catch.
ResetReturned ==
  /\ reset.pc = "removeItem"
  /\ reset' = [pc |-> "idle", ok |-> FALSE]
  /\ IF reset.ok
     THEN history' = <<>> /\ UNCHANGED consoleErrors
     ELSE /\ consoleErrors' = consoleErrors \cup {"Failed to reset history"}
          /\ UNCHANGED history
  /\ UNCHANGED <<storage, isLoading, historyLoad>>
  /\ UNCHANGED layoutVars
  /\ UNCHANGED bulkVars
  /\ UNCHANGED opsLeft

\* WithNote that moves the edited record to the front.
WithNoteFirst(log, index, note) ==
  <<[log[index] EXCEPT !.note = note]>>
    \o [k \in 1..(Len(log) - 1) |-> IF k < index THEN log[k] ELSE log[k + 1]]

\* updatedHistory = [...history]; updatedHistory[index].note = note
WithNote(log, index, note) == [log EXCEPT ![index].note = note]

\* UpdateNote whose catch puts the history of before the edit back.
UpdateNoteRollingBack(index, note, writeOk) ==
  /\ UserStep
  /\ HistoryScreenShown
  /\ index \in 1..Len(history)
  /\ LET updatedHistory == WithNote(history, index, note) IN
     IF writeOk
     THEN /\ history' = updatedHistory
          /\ storage' = [storage EXCEPT ![SINGLE_KEY] = Item(updatedHistory)]
          /\ UNCHANGED consoleErrors
     ELSE /\ consoleErrors' = consoleErrors \cup {"Failed to save note"}
          /\ UNCHANGED <<history, storage>>
  /\ UNCHANGED <<isLoading, historyLoad, reset>>
  /\ UNCHANGED layoutVars
  /\ UNCHANGED bulkVars

\* onChangeText of a rendered item's note: setHistory, the call of setItem;
\* a rejected setItem (writeOk = FALSE) ends in the catch.
UpdateNote(index, note, writeOk) ==
  /\ UserStep
  /\ HistoryScreenShown
  /\ index \in 1..Len(history)
  /\ LET updatedHistory == WithNote(history, index, note) IN
     /\ history' = updatedHistory
     /\ IF writeOk
        THEN /\ storage' = [storage EXCEPT ![SINGLE_KEY] = Item(updatedHistory)]
             /\ UNCHANGED consoleErrors
        ELSE /\ consoleErrors' = consoleErrors \cup {"Failed to save note"}
             /\ UNCHANGED storage
  /\ UNCHANGED <<isLoading, historyLoad, reset>>
  /\ UNCHANGED layoutVars
  /\ UNCHANGED bulkVars

\* ------------------------------------- the history operations, as a whole

\* The two persisted logs and the two in-memory histories.
Logs ==
  [single |-> storage[SINGLE_KEY], bulk |-> storage[BULK_KEY],
   history |-> history, bulkHistory |-> bulkPredictionHistory]

\* loadHistory from its call to its return, the read served (ok) or not.
LoadHistoryEffect(l, ok) ==
  IF ok /\ l.single.present
  THEN [l EXCEPT !.history = Slice(l.single.value, 0, PREDICTION_HISTORY_CAP)]
  ELSE l

\* loadBulkPredictionHistory from its call to its return.
LoadBulkEffect(l, ok) ==
  IF ok /\ l.bulk.present THEN [l EXCEPT !.bulkHistory = l.bulk.value] ELSE l

\* resetHistory from its call to its return.
ResetEffect(l, ok) ==
  IF ok THEN [l EXCEPT !.single = NoItem, !.history = <<>>] ELSE l

\* deleteHistoryItem(timestamp) from its call to its return.
DeleteEffect(l, timestamp, ok) ==
  LET updatedHistory == WithoutTimestamp(l.bulkHistory, timestamp) IN
  IF ok
  THEN [l EXCEPT !.bulkHistory = updatedHistory,
                 !.bulk = Item(StringifyBulk(updatedHistory))]
  ELSE [l EXCEPT !.bulkHistory = updatedHistory]

\* refreshBulkPredictionHistory from its call to its return.
RefreshEffect(l, ok) ==
  IF ok THEN [l EXCEPT !.bulkHistory = ParseOrEmpty(l.bulk)] ELSE l

\* ------------------------------------------------------------------- Init

\* How far earlier sessions filled the two persisted logs.
Fills == {"empty", "nearlyFull", "full"}

\* The number of records in a log of that cap filled that far.
FilledLength(fill, cap) ==
  CASE fill = "empty" -> 0
    [] fill = "nearlyFull" -> cap - 1
    [] fill = "full" -> cap

\* The item of a key earlier sessions wrote `log` to, or never wrote.
Stored(log) == IF log = <<>> THEN NoItem ELSE Item(log)

\* App has mounted; the History screen has not mounted yet.
Mounted(fills, ops) ==
  /\ \E fill \in fills :
       storage = [key \in {SINGLE_KEY, BULK_KEY} |->
                    IF key = SINGLE_KEY
                    THEN Stored(OldPredictionLog(
                           FilledLength(fill, PREDICTION_HISTORY_CAP)))
                    ELSE Stored(OldBulkLog(
                           FilledLength(fill, BULK_HISTORY_CAP)))]
  /\ clock = BULK_HISTORY_CAP + 1
  /\ sections = <<EmptySection>>
  /\ bulkImages = <<>>
  /\ bulkPrediction = <<>>
  /\ bulkLoading = FALSE
  /\ estimatedTime = 0
  /\ isGrayscaleEnabled = FALSE
  /\ selectedResolution = "150x150"
  /\ modelName = "Yukleniyor..."
  /\ error = ""
  /\ alerts = {}
  /\ consoleErrors = {}
  /\ refresh = Idle
  /\ runs = <<>>
  /\ uploads = [index \in 1..MAX_SECTIONS |-> IdleUpload]
  /\ history = <<>>
  /\ isLoading = TRUE
  /\ historyLoad = Idle
  /\ reset = [pc |-> "idle", ok |-> FALSE]
  /\ itemsLeft = MaxItems
  /\ opsLeft = ops

\* The mount effect of App has called loadBulkPredictionHistory and the
\* read has not settled yet.
InitFrom(fills, ops) ==
  /\ Mounted(fills, ops)
  /\ bulkPredictionHistory = <<>>
  /\ bulkModalVisible = FALSE
  /\ historyModalVisible = FALSE
  /\ \E readOk \in BOOLEAN :
       bulkHistoryLoad = [pc |-> "getItem", stored |-> GetItem(BULK_KEY, readOk)]

Init == InitFrom(Fills, MaxAllOps)

\* The state InitFrom reaches by BulkHistoryLoaded with the read served,
\* OpenBulkModal and OpenHistoryModal: the history modal lists the
\* persisted bulk log.
InitHistoryModal ==
  /\ Mounted(Fills, MaxModalOps)
  /\ bulkPredictionHistory = ParseOrEmpty(storage[BULK_KEY])
  /\ bulkModalVisible = TRUE
  /\ historyModalVisible = TRUE
  /\ bulkHistoryLoad = [pc |-> "done", stored |-> NotRead]

\* The sessions that start with an empty or with a full bulk log.
InitBulk == InitFrom({"empty", "full"}, MaxRunOps)

\* ------------------------------------------------------------------- Next

\* The outcomes of an item of a bulk run: the failures, and 2xx answers with
\* each label or an unknown one, over a vector of four probabilities or of
\* two, or without a probability array.
RunResponses == Responses({<<9000, 500, 300, 200>>, <<9000, 1000>>})

\* A step of the processBulkImages call r.
RunStep(r) ==
  /\ r \in 1..Len(runs)
  /\ \/ ImageFetched(r)
     \/ \E response \in RunResponses : PredictReturned(r, response)
     \/ CommitRead(r)
     \/ CommitWritten(r)

\* The bulk modal and the bulk runs, with every outcome of an item.
BulkNext ==
  \/ OpenBulkModal
  \/ \E n \in 1..MaxItems : PickBulkImages(n)
  \/ ProcessBulkImages
  \/ \E r \in 1..MaxItems : RunStep(r)
  \/ CloseBulkModal
  \/ ToggleGrayscale
  \/ BulkHistoryLoaded

\* Every run step stays enabled until taken and the runtime resumes every
\* settled await; the user's steps carry no fairness.
SpecBulk ==
  InitBulk /\ [][BulkNext]_vars /\ \A r \in 1..MaxItems : WF_vars(RunStep(r))

\* The sessions that start with an empty bulk log, with the steps of the
\* user it takes to pick a batch and run it.
InitItems == InitFrom({"empty"}, MaxRunOps)

\* The bulk modal staying open and the bulk runs, with every outcome of an
\* item.
BulkItemsNext ==
  \/ OpenBulkModal
  \/ \E n \in 1..MaxItems : PickBulkImages(n)
  \/ ProcessBulkImages
  \/ \E r \in 1..MaxItems : RunStep(r)
  \/ BulkHistoryLoaded

SpecBulkItems == InitItems /\ [][BulkItemsNext]_vars

\* The items of a rendered list the user taps: the first two and the last.
Tapped(log) == {k \in 1..Len(log) : k <= 2 \/ k = Len(log)}

\* A step of the uploadImage call of section index.
UploadStep(index) ==
  \/ UploadImageFetched(index)
  \/ \E response \in FewResponses : UploadPredictReturned(index, response)
  \/ UploadRead(index)
  \/ UploadWritten(index)

\* A step of a bulk run of one image that is classified or fails.
CoarseRunStep(r) ==
  /\ r \in 1..Len(runs)
  /\ \/ ImageFetched(r)
     \/ \E response \in FewResponses : PredictReturned(r, response)
     \/ CommitRead(r)
     \/ CommitWritten(r)

\* The bulk modal and the bulk runs, an item being classified or failing.
BulkCommitNext ==
  \/ OpenBulkModal
  \/ \E n \in 1..MaxItems : PickBulkImages(n)
  \/ ProcessBulkImages
  \/ \E r \in 1..MaxItems : CoarseRunStep(r)
  \/ CloseBulkModal
  \/ BulkHistoryLoaded

\* As in SpecBulk, every continuation of a run is eventually resumed.
SpecBulkCommit ==
  /\ InitBulk
  /\ [][BulkCommitNext]_vars
  /\ \A r \in 1..MaxItems : WF_vars(CoarseRunStep(r))

\* The responses used where the samples matter: a failure, and 2xx answers
\* of two classes whose vector is well formed, has a maximum that makes the
\* mean of two samples fall between two hundredths, or is empty.
SampleResponses ==
  {[kind |-> "networkError", data |-> NoData]}
  \cup [kind : {"ok"},
        data : [class : {"Glioma", "No Tumor"}, hasProbability : {TRUE},
                probability : { <<9000, 500, 300, 200>>,
                                <<7001, 1000, 1000, 999>>, <<>> }]]

\* A step of a bulk run whose items answer with SampleResponses.
SampleRunStep(r) ==
  /\ r \in 1..Len(runs)
  /\ \/ ImageFetched(r)
     \/ \E response \in SampleResponses : PredictReturned(r, response)
     \/ CommitRead(r)
     \/ CommitWritten(r)

\* The bulk modal and the bulk runs, for the samples and the means.
BulkMeansNext ==
  \/ OpenBulkModal
  \/ \E n \in 1..MaxItems : PickBulkImages(n)
  \/ ProcessBulkImages
  \/ \E r \in 1..MaxItems : SampleRunStep(r)
  \/ CloseBulkModal
  \/ BulkHistoryLoaded

SpecBulkMeans == InitBulk /\ [][BulkMeansNext]_vars

\* The sessions that start with an empty bulk log, with the steps of the
\* user it takes to pick a batch, run it and close the modal meanwhile.
InitBatch == InitFrom({"empty"}, MaxBatchOps)

\* The numbers of assets the picker returns: small ones, and those around
\* MAX_BULK_IMAGES.
PickSizes ==
  (1..MaxItems)
  \cup ((MAX_BULK_IMAGES - 1)..(MAX_BULK_IMAGES + 2))

\* The bulk modal and the bulk runs, with batches of every size.
BatchNext ==
  \/ OpenBulkModal
  \/ \E n \in PickSizes : PickBulkImages(n)
  \/ ProcessBulkImages
  \/ \E r \in 1..MaxItems : CoarseRunStep(r)
  \/ CloseBulkModal
  \/ BulkHistoryLoaded

SpecBatch == InitBatch /\ [][BatchNext]_vars

\* The answers to a single classification where the probability vector
\* matters: vectors of no, two, four and five entries.
FormatResponses ==
  Responses({ <<>>, <<9000, 1000>>, <<9000, 500, 300, 200>>,
              <<2500, 2500, 2500, 2500, 0>> })

\* A step of the uploadImage call of section index, with FormatResponses.
FormatUploadStep(index) ==
  \/ UploadImageFetched(index)
  \/ \E response \in FormatResponses : UploadPredictReturned(index, response)
  \/ UploadRead(index)
  \/ UploadWritten(index)

\* The first section and the History screen, for what they render.
SingleNext ==
  \/ PickImage(1)
  \/ UploadImage(1)
  \/ FormatUploadStep(1)
  \/ Retry
  \/ MountHistory
  \/ HistoryLoaded

\* The sessions that start with a single log one record under its cap,
\* with the steps of the user it takes to classify an image and open the
\* History screen.
InitSingle == InitFrom({"nearlyFull"}, MaxSingleOps)

SpecSingle == InitSingle /\ [][SingleNext]_vars

\* The bulk modal and the bulk runs, with the Grayscale switch.
BulkConfigNext ==
  \/ OpenBulkModal
  \/ \E n \in 1..MaxItems : PickBulkImages(n)
  \/ ProcessBulkImages
  \/ \E r \in 1..MaxItems : CoarseRunStep(r)
  \/ CloseBulkModal
  \/ ToggleGrayscale
  \/ BulkHistoryLoaded

SpecBulkConfig == InitBatch /\ [][BulkConfigNext]_vars

\* The sessions that start with an empty bulk log, with the steps of the
\* user it takes to start a run, leave the modal and change the settings.
InitRequests == InitFrom({"empty"}, MaxRequestOps)

\* The resolutions the user taps: the initial one and another.
TappedResolutions == {"150x150", "224x224"}

\* The bulk modal and the bulk runs of a batch of two, with the grayscale
\* switch and the resolution list.
BulkRequestsNext ==
  \/ OpenBulkModal
  \/ PickBulkImages(2)
  \/ ProcessBulkImages
  \/ \E r \in 1..MaxItems : CoarseRunStep(r)
  \/ CloseBulkModal
  \/ ToggleGrayscale
  \/ \E resolution \in TappedResolutions : SelectResolution(resolution)
  \/ BulkHistoryLoaded

SpecBulkRequests == InitRequests /\ [][BulkRequestsNext]_vars

\* The bulk modal, the runs of one image with every outcome, and the
\* history modal opened and closed: what the two bulk views show.
BulkViewsNext ==
  \/ OpenBulkModal
  \/ PickBulkImages(1)
  \/ ProcessBulkImages
  \/ \E r \in 1..MaxItems : RunStep(r)
  \/ OpenHistoryModal
  \/ CloseHistoryModal
  \/ BulkHistoryLoaded

SpecBulkViews == InitBatch /\ [][BulkViewsNext]_vars

\* The sessions with the steps of the user it takes to choose a layout of
\* two sections, pick an image in each and start both classifications.
InitSections == InitFrom({"empty"}, MaxSectionOps)

\* The sections of the layouts 1x1 and 2x1 and their uploadImage calls.
SectionsNext ==
  \/ \E numSections \in 1..2 : SelectLayout(numSections)
  \/ \E index \in 1..2 : PickImage(index)
  \/ \E index \in 1..2 : UploadImage(index)
  \/ \E index \in 1..2 : UploadStep(index)
  \/ Retry

\* The runtime resumes every settled await of an uploadImage call; the
\* user's steps carry no fairness.
SpecSections ==
  InitSections /\ [][SectionsNext]_vars
  /\ \A index \in 1..2 : WF_vars(UploadStep(index))

\* The history modal: its buttons and the refresh it awaits.
HistoryModalNext ==
  \/ OpenHistoryModal
  \/ CloseHistoryModal
  \/ RefreshBulkPredictionHistory
  \/ RefreshReturned
  \/ \E k \in Tapped(bulkPredictionHistory), writeOk \in BOOLEAN :
       DeleteHistoryItem(bulkPredictionHistory[k].timestamp, writeOk)

SpecHistoryModal == InitHistoryModal /\ [][HistoryModalNext]_vars

\* The bulk modal, the bulk runs and the history modal: every operation on
\* the bulk log.
BulkLogNext ==
  \/ OpenBulkModal
  \/ PickBulkImages(1)
  \/ ProcessBulkImages
  \/ \E r \in 1..Len(runs) : CoarseRunStep(r)
  \/ CloseBulkModal
  \/ BulkHistoryLoaded
  \/ HistoryModalNext

\* The sections and the history screen: every operation on the
\* single-prediction log.
SingleLogNext ==
  \/ \E numSections \in 1..2 : SelectLayout(numSections)
  \/ \E index \in 1..Len(sections) : PickImage(index)
  \/ \E index \in 1..Len(sections) : UploadImage(index)
  \/ \E index \in 1..MAX_SECTIONS : UploadStep(index)
  \/ Retry
  \/ MountHistory
  \/ HistoryLoaded
  \/ ResetHistory
  \/ ResetReturned
  \/ \E k \in Tapped(history), note \in Notes, writeOk \in BOOLEAN :
       UpdateNote(k, note, writeOk)

\* Both screens: every operation on the two logs.
Next == BulkLogNext \/ SingleLogNext

Spec == Init /\ [][Next]_vars

\* ================================================================ properties

\* The processBulkImages calls whose loop has ended: results is the record
\* the call reports (setBulkPrediction) and commits.
LoopEnded(run) == run.pc \in {"getItem", "setItem"}

\* glioma + meningioma + pituitary + noTumor of a record.
Counted(results) ==
  results.glioma + results.meningioma + results.pituitary + results.noTumor

PersistedSingle == ParseOrEmpty(storage[SINGLE_KEY])

PersistedBulk == ParseOrEmpty(storage[BULK_KEY])

\* `new` is `old` with `record` inserted under the cap: min(L + 1, cap)
\* records, the new one first, then the old ones in their order (so the last
\* of a log at its cap is dropped).
InsertedInto(old, record, cap, new) ==
  /\ Len(new) = Min(Len(old) + 1, cap)
  /\ new[1] = record
  /\ \A k \in 1..(Len(new) - 1) : new[k + 1] = old[k]

\* ---------------------------------------------------------------------- C1

\* C1, as amended: when the loop of a bulk run over N items has ended with F
\* failed items (transport error, unreadable body or non-2xx answer) and
\* every 2xx answer carried one of the four labels and a probability array,
\* the four counts of the record sum to N - F.
C1_CountsSumToSuccesses ==
  \A r \in 1..Len(runs) :
    (LoopEnded(runs[r]) /\ runs[r].otherLabel = 0 /\ runs[r].threw = 0)
      => Counted(runs[r].results) = Len(runs[r].assets) - runs[r].failed

\* C1's case: a run of at least two items ended, one failed, one counted.
C1_Witness ==
  \E r \in 1..Len(runs) :
    /\ LoopEnded(runs[r]) /\ runs[r].otherLabel = 0 /\ runs[r].threw = 0
    /\ runs[r].failed >= 1
    /\ Counted(runs[r].results) >= 1

\* C1 as stated: with every 2xx answer carrying one of the four labels, the
\* four counts sum to N - F.
C1_AsStated ==
  \A r \in 1..Len(runs) :
    (LoopEnded(runs[r]) /\ runs[r].otherLabel = 0)
      => Counted(runs[r].results) = Len(runs[r].assets) - runs[r].failed

\* ---------------------------------------------------------------------- C2

\* The fields interface BulkPredictionResult declares.
BulkPredictionResultFields ==
  {"glioma", "meningioma", "pituitary", "noTumor", "modelName", "timestamp",
   "gliomaAccuracy", "meningiomaAccuracy", "pituitaryAccuracy",
   "noTumorAccuracy", "isGrayscale"}

\* The failure count a record states: the value of the field it has beside
\* the declared ones; a record that states none reports no failure.
ReportedFailures(results) ==
  LET more == DOMAIN results \ BulkPredictionResultFields IN
  IF more = {} THEN 0 ELSE results[CHOOSE field \in more : TRUE]

\* C2 as stated: when the loop of a bulk run has ended, the failure count the
\* record reports equals the number of items whose call failed.
C2_FailureCountReported ==
  \A r \in 1..Len(runs) :
    LoopEnded(runs[r]) => ReportedFailures(runs[r].results) = runs[r].failed

\* ---------------------------------------------------------------------- C3

\* C3: at every point of a bulk run the passes of the loop started so far are
\* those of the first i assets of the batch, once each and in batch order,
\* whatever the earlier outcomes; when the loop has ended every asset has
\* had its pass; and the requests posted are for assets that had their pass,
\* at most one request per asset, in batch order.
C3_EveryItemOnceInOrder ==
  \A r \in 1..Len(runs) :
    LET run == runs[r] IN
    run.pc # "done" =>
      /\ run.attempted = SubSeq(run.assets, 1, run.i)
      /\ LoopEnded(run) => run.attempted = run.assets
      /\ \A j \in 1..Len(run.posted) :
           /\ run.posted[j].asset \in Range(run.attempted)
           /\ \A k \in 1..Len(run.posted) :
                j < k => run.posted[j].asset < run.posted[k].asset

\* C3's case: a run of three items ended with every item failed.
C3_Witness ==
  \E r \in 1..Len(runs) :
    /\ LoopEnded(runs[r])
    /\ Len(runs[r].assets) = 3
    /\ runs[r].failed = 3
    /\ runs[r].attempted = runs[r].assets

\* ---------------------------------------------------------------------- C4

\* C4: a bulk run has at most one request outstanding, the one for the asset
\* of the current pass of the loop, and it is outstanding exactly while the
\* run awaits the answer; every request posted earlier has been answered.
C4_OneRequestInFlight ==
  \A r \in 1..Len(runs) :
    LET run == runs[r] IN
    /\ Cardinality(run.inFlight) <= 1
    /\ run.pc = "predict" => run.inFlight = {run.assets[run.i]}
    /\ run.pc # "predict" => run.inFlight = {}

\* C4's case: the request for the second asset is outstanding after the one
\* for the first asset was answered.
C4_Witness ==
  \E r \in 1..Len(runs) :
    /\ runs[r].pc = "predict"
    /\ runs[r].i = 2
    /\ Len(runs[r].posted) = 2
    /\ runs[r].inFlight = {runs[r].assets[2]}

\* ---------------------------------------------------------------------- C5

\* C5: every bulk run that has started eventually returns; and the step in
\* which a run's write is served, the persisted log being the one the run
\* read, leaves as persisted log the run's record followed by the records
\* persisted before, cut to 50.
C5_RunFinishesAndCommits ==
  /\ \A r \in 1..MaxItems :
       (Len(runs) >= r) ~> (Len(runs) >= r /\ runs[r].pc = "done")
  /\ [][\A r \in 1..Len(runs) :
          ( /\ runs[r].pc = "getItem"
            /\ runs'[r].pc = "setItem"
            /\ runs'[r].writeOk
            /\ runs[r].stored.item = storage[BULK_KEY] )
          => /\ storage'[BULK_KEY].present
             /\ InsertedInto(PersistedBulk, runs[r].results,
                             BULK_HISTORY_CAP, storage'[BULK_KEY].value)]_vars

\* C5's case: a run's write was served on a log at its cap, and the run
\* then returned with its record in the persisted log.
C5_Witness ==
  /\ Len(runs) >= 1
  /\ runs[1].pc = "done"
  /\ Len(PersistedBulk) = BULK_HISTORY_CAP
  /\ PersistedBulk[1].timestamp > BULK_HISTORY_CAP

\* ---------------------------------------------------------------------- C6

\* C6: the step in which uploadImage (cap 10) or processBulkImages (cap 50)
\* writes the log it read, of length L, with its record inserted, writes a
\* log of length min(L + 1, cap), the record first, then the records read in
\* their order; with L = cap the last record read is not in it.
C6_BoundedInsertion ==
  [][ /\ \A index \in 1..MAX_SECTIONS :
           ( /\ uploads[index].pc = "getItem"
             /\ uploads'[index].pc = "setItem"
             /\ uploads'[index].writeOk )
           => /\ storage'[SINGLE_KEY].present
              /\ InsertedInto(ParseOrEmpty(uploads[index].stored.item),
                              uploads[index].newPrediction,
                              PREDICTION_HISTORY_CAP,
                              storage'[SINGLE_KEY].value)
      /\ \A r \in 1..Len(runs) :
           ( /\ runs[r].pc = "getItem"
             /\ runs'[r].pc = "setItem"
             /\ runs'[r].writeOk )
           => /\ storage'[BULK_KEY].present
              /\ InsertedInto(ParseOrEmpty(runs[r].stored.item),
                              runs[r].results, BULK_HISTORY_CAP,
                              storage'[BULK_KEY].value) ]_vars

\* C6's case: uploadImage has written its record into a log it read with 10
\* records.
C6_Witness ==
  \E index \in 1..MAX_SECTIONS :
    /\ uploads[index].pc = "setItem"
    /\ uploads[index].writeOk
    /\ Len(ParseOrEmpty(uploads[index].stored.item)) = PREDICTION_HISTORY_CAP
    /\ Len(PersistedSingle) = PREDICTION_HISTORY_CAP
    /\ PersistedSingle[1] = uploads[index].newPrediction

\* ---------------------------------------------------------------------- C7

\* C7: in every reachable state the persisted single-prediction log and the
\* history screen's copy have at most 10 records, and the persisted bulk log
\* and the history modal's copy have at most 50.
C7_CapsHold ==
  /\ Len(PersistedSingle) <= PREDICTION_HISTORY_CAP
  /\ Len(history) <= PREDICTION_HISTORY_CAP
  /\ Len(PersistedBulk) <= BULK_HISTORY_CAP
  /\ Len(bulkPredictionHistory) <= BULK_HISTORY_CAP

\* C7's case: a bulk run has committed into a log at its cap and the history
\* modal's copy holds the 50 records.
C7_Witness ==
  /\ Len(PersistedBulk) = BULK_HISTORY_CAP
  /\ PersistedBulk[1].timestamp > BULK_HISTORY_CAP
  /\ bulkPredictionHistory = PersistedBulk

\* ---------------------------------------------------------------------- C8

\* Two records of the single-prediction log equal in every field but note.
SameButNote(a, b) == [a EXCEPT !.note = ""] = [b EXCEPT !.note = ""]

\* C8 as stated: a step leaves every record of the persisted
\* single-prediction log in it, every field but its note unchanged, unless
\* the step removes the whole log or inserts a record into a log of 10, which
\* drops the last one.
C8_NeverRemovedIndividually ==
  [][\A k \in 1..Len(PersistedSingle) :
       LET old == PersistedSingle
           new == ParseOrEmpty(storage'[SINGLE_KEY])
       IN \/ \E j \in 1..Len(new) : SameButNote(new[j], old[k])
          \/ ~storage'[SINGLE_KEY].present
          \/ /\ k = PREDICTION_HISTORY_CAP
             /\ Len(new) = PREDICTION_HISTORY_CAP
             /\ \A j \in 1..(PREDICTION_HISTORY_CAP - 1) :
                  SameButNote(new[j + 1], old[j])]_vars

\* ---------------------------------------------------------------------- C9

\* C9 as stated: a deleteHistoryItem(ts) whose write is served, the persisted
\* bulk log holding a record with timestamp ts, leaves as persisted log the
\* one before without that record.
C9_DeleteRemovesExactlyThatRecord ==
  [][\A ts \in Timestamps(PersistedBulk) :
       DeleteHistoryItem(ts, TRUE)
         => /\ storage'[BULK_KEY].present
            /\ storage'[BULK_KEY].value =
                 SelectSeq(PersistedBulk, LAMBDA item : item.timestamp # ts)]_vars

\* --------------------------------------------------------------------- C10

\* C10 as stated: a deleteHistoryItem(ts) whose write is served, the
\* persisted bulk log holding no record with timestamp ts, changes neither
\* the persisted log nor the in-memory history and reports no error.
C10_DeleteOfAbsentIsNoOp ==
  [][\A ts \in Timestamps(bulkPredictionHistory) :
       (ts \notin Timestamps(PersistedBulk) /\ DeleteHistoryItem(ts, TRUE))
         => UNCHANGED <<storage, bulkPredictionHistory, alerts,
                        consoleErrors>>]_vars

\* --------------------------------------------------------------------- C11

\* The keys of the classes in results and accuracies.
ClassKeys == {"glioma", "meningioma", "pituitary", "noTumor"}

\* The mean confidence a record states for a class.
MeanOf(results, key) ==
  CASE key = "glioma" -> results.gliomaAccuracy
    [] key = "meningioma" -> results.meningiomaAccuracy
    [] key = "pituitary" -> results.pituitaryAccuracy
    [] key = "noTumor" -> results.noTumorAccuracy

\* C11: when the loop of a bulk run has ended, the record's mean confidence
\* of every class that got no sample is exactly 0, so it is not NaN (the
\* value the division 0 / 0 would give), also when every item failed.
C11_NoSampleMeansZero ==
  \A r \in 1..Len(runs) :
    LoopEnded(runs[r]) =>
      \A key \in ClassKeys :
        Len(runs[r].accuracies[key]) = 0 =>
          /\ MeanOf(runs[r].results, key) = 0
          /\ MeanOf(runs[r].results, key) # NotANumber

\* C11's case: a run of at least two items ended, every item failed.
C11_Witness ==
  \E r \in 1..Len(runs) :
    /\ LoopEnded(runs[r])
    /\ Len(runs[r].assets) >= 2
    /\ runs[r].failed = Len(runs[r].assets)
    /\ \A key \in ClassKeys : MeanOf(runs[r].results, key) = 0

\* --------------------------------------------------------------------- C12

\* Samples that are percentages: finite, from 0 to 100 (in 1/10000).
Percentages(samples) ==
  \A k \in 1..Len(samples) : samples[k] \in 0..1000000

\* |a - b|
Distance(a, b) == IF a >= b THEN a - b ELSE b - a

\* C12: when the loop of a bulk run has ended, for every class with n >= 1
\* samples that are percentages the record's mean confidence m is a multiple
\* of 0.01 at most 0.005 away from (sum of the samples) / n, and it lies in
\* [0, 100].
C12_MeanOfSamples ==
  \A r \in 1..Len(runs) :
    LoopEnded(runs[r]) =>
      \A key \in ClassKeys :
        LET samples == runs[r].accuracies[key]
            n == Len(samples)
            m == MeanOf(runs[r].results, key)
        IN (n >= 1 /\ Percentages(samples)) =>
             /\ Distance(200 * n * m, 2 * SumSeq(samples)) <= 100 * n
             /\ m \in 0..10000

\* C12's case: a run ended with a class of three samples that are not all
\* equal, whose mean is no multiple of 0.01 before it is rounded.
C12_Witness ==
  \E r \in 1..Len(runs) :
    /\ LoopEnded(runs[r])
    /\ \E key \in ClassKeys :
         LET samples == runs[r].accuracies[key] IN
         /\ Len(samples) = 3
         /\ Percentages(samples)
         /\ samples[1] # samples[2]
         /\ SumSeq(samples) % 300 # 0

\* --------------------------------------------------------------------- C13

\* C13: the selected batch, and the batch of every run, never has more than
\* MAX_BULK_IMAGES items; and when the picker returns n assets the batch
\* becomes the first min(n, MAX_BULK_IMAGES) of them in picker order: the
\* first MAX_BULK_IMAGES when n is larger, all of them otherwise.
C13_BatchAtMost500 ==
  [][/\ Len(bulkImages') <= MAX_BULK_IMAGES
     /\ \A r \in 1..Len(runs') : Len(runs'[r].assets) <= MAX_BULK_IMAGES
     /\ \A n \in PickSizes :
          PickBulkImages(n) =>
            /\ Len(bulkImages') = Min(n, MAX_BULK_IMAGES)
            /\ \A k \in 1..Len(bulkImages') : bulkImages'[k] = Assets(n)[k]
    ]_vars

\* C13's case: the picker returned more than MAX_BULK_IMAGES assets (the
\* notice was shown) and the batch selected has MAX_BULK_IMAGES items.
C13_Witness ==
  /\ "Bilgi" \in alerts
  /\ Len(bulkImages) = MAX_BULK_IMAGES

\* --------------------------------------------------------------------- C14

\* C14: when /predict answers a single classification with 2xx, the record
\* to persist has the class and the probabilities of the answer, the image
\* and the model of the section, the time of the answer and an empty note;
\* and when the read of the single log and the write are served, the log
\* written is that record followed by the records the call read, in their
\* order, cut to PREDICTION_HISTORY_CAP records.
C14_SinglePersisted ==
  [][\A index \in 1..MAX_SECTIONS :
       /\ \A response \in FewResponses :
            (response.kind = "ok" /\ UploadPredictReturned(index, response))
              => LET record == uploads'[index].newPrediction IN
                 /\ record.class = response.data.class
                 /\ record.probability = response.data.probability
                 /\ record.imageUri = uploads[index].asset
                 /\ record.modelName = uploads[index].modelName
                 /\ record.timestamp = clock
                 /\ record.note = ""
       /\ (UploadRead(index) /\ uploads'[index].pc = "setItem"
             /\ uploads'[index].writeOk)
            => /\ uploads[index].newPrediction.note = ""
               /\ InsertedInto(ParseOrEmpty(uploads[index].stored.item),
                               uploads[index].newPrediction,
                               PREDICTION_HISTORY_CAP,
                               ParseOrEmpty(storage'[SINGLE_KEY]))
    ]_vars

\* C14's case: a single classification has written a log at its cap: the
\* new record is first, the newest record it read comes second.
C14_Witness ==
  \E index \in 1..MAX_SECTIONS :
    /\ uploads[index].pc = "setItem" /\ uploads[index].writeOk
    /\ Len(PersistedSingle) = PREDICTION_HISTORY_CAP
    /\ PersistedSingle[1] = uploads[index].newPrediction
    /\ Len(ParseOrEmpty(uploads[index].stored.item)) = PREDICTION_HISTORY_CAP
    /\ PersistedSingle[2] = ParseOrEmpty(uploads[index].stored.item)[1]

\* --------------------------------------------------------------------- C15

\* C15: a resetHistory whose removeItem is served removes the key of the
\* single log (the persisted log is empty) and, when the call returns,
\* empties the in-memory history; a resetHistory whose removeItem is
\* rejected leaves the persisted log and the in-memory history as they were.
C15_ResetClearsBoth ==
  [][/\ (ResetHistory /\ reset'.ok)
          => /\ storage'[SINGLE_KEY] = NoItem
             /\ ParseOrEmpty(storage'[SINGLE_KEY]) = <<>>
             /\ history' = history
     /\ (ResetHistory /\ ~reset'.ok) => (storage' = storage /\ history' = history)
     /\ (ResetReturned /\ reset.ok) => (history' = <<>> /\ storage' = storage)
     /\ (ResetReturned /\ ~reset.ok)
          => (history' = history /\ storage' = storage)
    ]_vars

\* C15's case: a resetHistory has returned in a session that started with a
\* full single log, loaded it and persisted nothing since (no timestamp was
\* taken, nothing failed): the key is gone, the in-memory history is empty.
C15_Witness ==
  /\ reset.pc = "idle"
  /\ historyLoad.pc = "done"
  /\ Len(PersistedBulk) = BULK_HISTORY_CAP
  /\ clock = BULK_HISTORY_CAP + 1
  /\ consoleErrors = {}
  /\ ~storage[SINGLE_KEY].present
  /\ history = <<>>

\* --------------------------------------------------------------------- C16

\* C16: a refresh reads the persisted bulk log as it is when the button is
\* pressed and writes nothing; when the read is served, its return makes the
\* in-memory bulk history the log read (the empty sequence for an absent
\* key), whatever memory held, so with nothing written meanwhile memory
\* equals the persisted log; when the read is rejected, its return leaves
\* the in-memory history as it was.  The persisted log is never changed.
C16_RefreshLoadsPersisted ==
  [][/\ RefreshBulkPredictionHistory
          => /\ refresh'.stored.ok => refresh'.stored.item = storage[BULK_KEY]
             /\ storage' = storage
             /\ bulkPredictionHistory' = bulkPredictionHistory
     /\ (RefreshReturned /\ refresh.stored.ok)
          => /\ storage' = storage
             /\ bulkPredictionHistory' =
                  IF refresh.stored.item.present
                  THEN refresh.stored.item.value ELSE <<>>
             /\ refresh.stored.item = storage[BULK_KEY]
                  => bulkPredictionHistory' = PersistedBulk'
     /\ (RefreshReturned /\ ~refresh.stored.ok)
          => /\ storage' = storage
             /\ bulkPredictionHistory' = bulkPredictionHistory
    ]_vars

\* C16's case: a delete was rejected, which left memory one record short of
\* the persisted log, and a refresh has made memory the persisted log again.
C16_Witness ==
  /\ "Gecmis silinemedi." \in alerts
  /\ refresh.pc = "idle"
  /\ Len(PersistedBulk) = BULK_HISTORY_CAP
  /\ bulkPredictionHistory = PersistedBulk

\* --------------------------------------------------------------------- C17

\* A read that was served returned what the key holds now: nothing was
\* written between the call and its return.
ReadStillCurrent(stored, key) == stored.ok => stored.item = storage[key]

\* Every history operation, run on the logs l with either outcome, leaves
\* the same logs when run once more as it left the first time; the records
\* deleted are those the user taps, and one the log does not hold.
IdempotentOn(l) ==
  \A ok \in BOOLEAN :
    /\ LoadHistoryEffect(LoadHistoryEffect(l, ok), ok) = LoadHistoryEffect(l, ok)
    /\ LoadBulkEffect(LoadBulkEffect(l, ok), ok) = LoadBulkEffect(l, ok)
    /\ ResetEffect(ResetEffect(l, ok), ok) = ResetEffect(l, ok)
    /\ RefreshEffect(RefreshEffect(l, ok), ok) = RefreshEffect(l, ok)
    /\ \A timestamp \in
           {l.bulkHistory[k].timestamp : k \in Tapped(l.bulkHistory)} \cup {0} :
         DeleteEffect(DeleteEffect(l, timestamp, ok), timestamp, ok)
           = DeleteEffect(l, timestamp, ok)

\* C17: what each history operation (load of the single log, load of the
\* bulk log, resetHistory, deleteHistoryItem(ts), refresh) does to the two
\* persisted logs and the two in-memory histories when nothing happens
\* between its call and its return is a function of them; and applying that
\* function twice to the logs of any state gives what applying it once
\* gives.
C17_HistoryOperationsIdempotent ==
  /\ []IdempotentOn(Logs)
  /\ [][
     /\ (HistoryLoaded /\ ReadStillCurrent(historyLoad.stored, SINGLE_KEY))
          => Logs' = LoadHistoryEffect(Logs, historyLoad.stored.ok)
     /\ (BulkHistoryLoaded
           /\ ReadStillCurrent(bulkHistoryLoad.stored, BULK_KEY))
          => Logs' = LoadBulkEffect(Logs, bulkHistoryLoad.stored.ok)
     /\ (ResetReturned /\ (reset.ok => ~storage[SINGLE_KEY].present))
          => Logs' = ResetEffect(Logs, reset.ok)
     /\ (RefreshReturned /\ ReadStillCurrent(refresh.stored, BULK_KEY))
          => Logs' = RefreshEffect(Logs, refresh.stored.ok)
     /\ \A k \in Tapped(bulkPredictionHistory), ok \in BOOLEAN :
          DeleteHistoryItem(bulkPredictionHistory[k].timestamp, ok)
            => Logs' = DeleteEffect(Logs, bulkPredictionHistory[k].timestamp, ok)
    ]_vars

\* C17's case: both logs are loaded, a rejected delete has left memory and
\* store apart, and reset, refresh and a delete would each change the logs.
C17_Witness ==
  /\ historyLoad.pc = "done" /\ bulkHistoryLoad.pc = "done"
  /\ "Gecmis silinemedi." \in alerts
  /\ ResetEffect(Logs, TRUE) # Logs
  /\ RefreshEffect(Logs, TRUE) # Logs
  /\ \E timestamp \in Timestamps(bulkPredictionHistory) :
       DeleteEffect(Logs, timestamp, TRUE) # Logs

\* --------------------------------------------------------------------- C18

\* The alerts the code raises for a failed storage call.
PersistenceAlerts == {"Gecmis silinemedi.", "Gecmis yenilenemedi."}

\* A step in which a rejected storage call of one of the six operations
\* reaches its catch: the read or the write of a bulk commit, the read or
\* the write of a single persist, the write of a note edit, the removeItem
\* of a reset, the write of a delete, the read of a refresh.
PersistenceFailureCaught ==
  \/ \E r \in 1..Len(runs) :
       \/ CommitRead(r) /\ ~runs[r].stored.ok
       \/ CommitWritten(r) /\ ~runs[r].writeOk
  \/ \E index \in 1..MAX_SECTIONS :
       \/ UploadRead(index) /\ ~uploads[index].stored.ok
       \/ UploadWritten(index) /\ ~uploads[index].writeOk
  \/ \E k \in Tapped(history), note \in Notes : UpdateNote(k, note, FALSE)
  \/ ResetReturned /\ ~reset.ok
  \/ \E k \in Tapped(bulkPredictionHistory) :
       DeleteHistoryItem(bulkPredictionHistory[k].timestamp, FALSE)
  \/ RefreshReturned /\ ~refresh.stored.ok

\* C18 as stated: when a storage call of a bulk commit, a single persist, a
\* note edit, a reset, a delete or a refresh fails, the user is shown a
\* failure: after the step that catches it an alert about persistence has
\* been raised or the error view is up.
C18_PersistenceFailureShown ==
  [][PersistenceFailureCaught
       => (alerts' \cap PersistenceAlerts # {} \/ error' # "")]_vars

\* --------------------------------------------------------------------- C19

\* C19 as stated: once the user has closed the bulk dialog, which clears the
\* selected batch, a bulk run whose loop has not ended posts no further
\* request to /predict.
C19_AbortStopsCalls ==
  [][\A r \in 1..Len(runs) :
       (bulkImages = <<>> /\ ~bulkModalVisible
          /\ runs[r].pc \in {"fetchImage", "predict"})
         => Len(runs'[r].posted) = Len(runs[r].posted)]_vars

\* --------------------------------------------------------------------- C20

\* C20 as stated: when a bulk run's write of the log is served, the first
\* record of the log read back from the store equals the record the run
\* assembled, field for field: the four counts, the four means, modelName,
\* isGrayscale and timestamp.
C20_RecordReadBackEqual ==
  [][\A r \in 1..Len(runs) :
       (CommitRead(r) /\ runs'[r].pc = "setItem" /\ runs'[r].writeOk)
         => LET written == runs[r].results
                readBack == ParseOrEmpty(storage'[BULK_KEY])[1]
            IN \A field \in BulkPredictionResultFields :
                 readBack[field] = written[field]]_vars

\* --------------------------------------------------------------------- C21

\* The four counters of a record.
Counters(results) == [key \in ClassKeys |-> results[key]]

\* The outcomes of the POST that are failures: the fetch rejects, the body
\* is no JSON, the answer is not 2xx.
FailedResponses ==
  [kind : {"networkError", "malformedBody", "notOk"}, data : {NoData}]

\* C21: the step of a bulk run that ends the pass of an item whose call
\* failed (the read of the image rejected, the POST rejected, the body was
\* unreadable, or the answer was not 2xx) leaves the four counters and the
\* four sample sequences of the run as they were.
C21_FailedItemChangesNothing ==
  [][\A r \in 1..Len(runs) :
       (\/ ImageFetched(r) /\ runs'[r].pc # "predict"
        \/ \E response \in FailedResponses : PredictReturned(r, response))
         => /\ Counters(runs'[r].results) = Counters(runs[r].results)
            /\ runs'[r].accuracies = runs[r].accuracies]_vars

\* C21's case: a run has counted an item, then an item failed, and the loop
\* goes on: one counter at 1 with its one sample, the next pass started.
C21_Witness ==
  \E r \in 1..Len(runs) :
    /\ runs[r].pc = "fetchImage" /\ runs[r].i = 3
    /\ runs[r].failed = 1
    /\ Counted(runs[r].results) = 1
    /\ \E key \in ClassKeys : Len(runs[r].accuracies[key]) = 1

\* --------------------------------------------------------------------- C22

\* The key of results and accuracies the switch uses for a label.
KeyOf(label) ==
  CASE label = "Glioma" -> "glioma"
    [] label = "Meningioma" -> "meningioma"
    [] label = "Pituitary" -> "pituitary"
    [] label = "No Tumor" -> "noTumor"

\* x is the greatest element of the non-empty vector, as a percentage.
IsMaxTimes100(x, vector) ==
  \E k \in 1..Len(vector) :
    /\ x = vector[k] * 100
    /\ \A j \in 1..Len(vector) : vector[j] <= vector[k]

\* The step of run r that handles the 2xx answer `response` counts one more
\* item for the class of its label, appends one sample, the greatest
\* probability as a percentage, to the samples of that class, and leaves
\* the counters and the samples of the other classes as they were.
CountsForItsClass(r, response) ==
  LET key == KeyOf(response.data.class)
      before == runs[r]
      after == runs'[r]
  IN /\ after.results[key] = before.results[key] + 1
     /\ Len(after.accuracies[key]) = Len(before.accuracies[key]) + 1
     /\ SubSeq(after.accuracies[key], 1, Len(before.accuracies[key]))
          = before.accuracies[key]
     /\ IsMaxTimes100(after.accuracies[key][Len(after.accuracies[key])],
                      response.data.probability)
     /\ \A other \in ClassKeys \ {key} :
          /\ after.results[other] = before.results[other]
          /\ after.accuracies[other] = before.accuracies[other]

\* C22, as amended: the step of a bulk run that handles a 2xx answer with
\* one of the four labels and a probability array counts for its class.
C22_SuccessCountsForItsClass ==
  [][\A r \in 1..Len(runs) :
       \A response \in RunResponses :
         (/\ response.kind = "ok"
          /\ response.data.class \in Range(CLASS_LABELS)
          /\ response.data.hasProbability
          /\ PredictReturned(r, response))
           => CountsForItsClass(r, response)]_vars

\* C22's case: the second item of a run was answered 'No Tumor' after a
\* first that was answered 'Glioma': each class has its one sample of 90%.
C22_Witness ==
  \E r \in 1..Len(runs) :
    /\ runs[r].pc = "fetchImage" /\ runs[r].i = 3
    /\ runs[r].results.glioma = 1 /\ runs[r].results.noTumor = 1
    /\ runs[r].accuracies.glioma = <<900000>>
    /\ runs[r].accuracies.noTumor = <<900000>>
    /\ runs[r].results.meningioma = 0 /\ runs[r].results.pituitary = 0

\* C22 as stated: the step of a bulk run that handles a 2xx answer with one
\* of the four labels counts for its class.
C22_AsStated ==
  [][\A r \in 1..Len(runs) :
       \A response \in RunResponses :
         (/\ response.kind = "ok"
          /\ response.data.class \in Range(CLASS_LABELS)
          /\ PredictReturned(r, response))
           => CountsForItsClass(r, response)]_vars

\* --------------------------------------------------------------------- C23

\* A 2xx answer whose result is malformed: its probability vector is
\* missing or has not one entry per label, or its label is none of the four.
Malformed(data) ==
  \/ ~data.hasProbability
  \/ Len(data.probability) # Len(CLASS_LABELS)
  \/ data.class \notin Range(CLASS_LABELS)

\* C23 as stated: the step of a bulk run that handles a 2xx answer with a
\* malformed result leaves the four counters and the four sample sequences
\* as they were, and the run goes on: to the next item, or to the commit
\* after the last.
C23_MalformedIsUnclassifiable ==
  [][\A r \in 1..Len(runs) :
       \A response \in RunResponses :
         (/\ response.kind = "ok"
          /\ Malformed(response.data)
          /\ PredictReturned(r, response))
           => /\ Counters(runs'[r].results) = Counters(runs[r].results)
              /\ runs'[r].accuracies = runs[r].accuracies
              /\ runs'[r].pc \in {"fetchImage", "getItem"}]_vars

\* --------------------------------------------------------------------- C24

\* `out` is what the claim asks of formatProbabilities for `probabilities`:
\* the fallback message `message` and no line exactly when the vector is
\* missing or has not four entries; otherwise no message and four lines,
\* line i with label i of Glioma, No Tumor, Meningioma, Pituitary and with
\* probabilities[i] as a percentage; and only indices of the vector read.
FormatsAsClaimed(out, probabilities, message) ==
  LET labels == <<"Glioma", "No Tumor", "Meningioma", "Pituitary">> IN
  /\ out.message = message <=> Len(probabilities) # 4
  /\ out.message \in {message, ""}
  /\ out.message = message => out.lines = <<>>
  /\ out.message = "" =>
       /\ Len(out.lines) = 4
       /\ \A i \in 1..4 :
            /\ out.lines[i].label = labels[i]
            /\ 100 * out.lines[i].percentage.whole
                 + out.lines[i].percentage.hundredths = probabilities[i]
            /\ out.lines[i].percentage.hundredths \in 0..99
  /\ out.read \subseteq 1..Len(probabilities)

\* C24: every prediction a section shows and every record the History
\* screen lists is formatted as the claim asks, by the formatProbabilities
\* of its file.
C24_FormatProbabilities ==
  /\ \A index \in 1..Len(sections) :
       sections[index].prediction # <<>> =>
         LET probabilities == sections[index].prediction[1].probability IN
         FormatsAsClaimed(FormatProbabilities(probabilities), probabilities,
                          "Olasiliklar hesaplanamadi.")
  /\ \A k \in 1..Len(history) :
       FormatsAsClaimed(HistoryFormatProbabilities(history[k].probability),
                        history[k].probability,
                        "Probabilities could not be calculated.")

\* C24's case: the History screen lists a record with a vector of five
\* entries above one with four, and the section shows the one with five.
C24_Witness ==
  /\ Len(history) >= 2
  /\ Len(history[1].probability) = 5
  /\ Len(history[2].probability) = 4
  /\ sections[1].prediction # <<>>
  /\ Len(sections[1].prediction[1].probability) = 5

\* --------------------------------------------------------------------- C25

\* C25: the step in which a single classification fails (the read of the
\* image or the POST rejects, the body is unreadable, or the answer is not
\* 2xx) leaves the store as it is, sets the loading flag of the section to
\* false, and ends the call, so that it writes nothing later either.
C25_FailedSingleKeepsLog ==
  [][\A index \in 1..MAX_SECTIONS :
       (\/ UploadImageFetched(index) /\ uploads'[index].pc # "predict"
        \/ \E response \in FailedResponses :
             UploadPredictReturned(index, response))
         => /\ storage' = storage
            /\ sections'[index].isLoading = FALSE
            /\ uploads'[index].pc = "idle"]_vars

\* C25's case: the server has answered a single classification with a
\* non-2xx status: the section is not loading, it still has its image, and
\* the persisted single log is the one the session started with.
C25_Witness ==
  /\ "Sunucu Hatasi" \in alerts
  /\ error # ""
  /\ sections[1].image # 0 /\ ~sections[1].isLoading
  /\ uploads[1].pc = "idle"
  /\ PersistedSingle = OldPredictionLog(PREDICTION_HISTORY_CAP - 1)

\* --------------------------------------------------------------------- C26

\* C26: updateNote(index, text) for an index of the in-memory single
\* history leaves its length and every other record as they were, sets the
\* note of the record at index to text and leaves the other fields of that
\* record as they were; and the log it writes, when the write is served, is
\* the whole in-memory log after the edit.
C26_UpdateNoteFrame ==
  [][\A index \in 1..Len(history), note \in Notes, writeOk \in BOOLEAN :
       UpdateNote(index, note, writeOk)
         => /\ Len(history') = Len(history)
            /\ \A k \in 1..Len(history) :
                 k # index => history'[k] = history[k]
            /\ history'[index].note = note
            /\ \A field \in DOMAIN history[index] \ {"note"} :
                 history'[index][field] = history[index][field]
            /\ DOMAIN history'[index] = DOMAIN history[index]
            /\ writeOk => /\ storage'[SINGLE_KEY].present
                          /\ storage'[SINGLE_KEY].value = history'
            /\ storage'[BULK_KEY] = storage[BULK_KEY]]_vars

\* C26's case: the note of the second record of a full log was edited and
\* the log written: store and memory hold the ten records, the second with
\* its note, the first and the last without.
C26_Witness ==
  /\ Len(history) = PREDICTION_HISTORY_CAP
  /\ history[2].note = "seen"
  /\ history[1].note = "" /\ history[PREDICTION_HISTORY_CAP].note = ""
  /\ PersistedSingle = history

\* --------------------------------------------------------------------- C27

C28_LastWriterWins ==
  [][/\ \A index \in 1..Len(history), note \in Notes :
          (/\ reset.pc = "removeItem" /\ reset.ok
           /\ UpdateNote(index, note, TRUE))
            => /\ storage'[SINGLE_KEY].present
               /\ storage'[SINGLE_KEY].value = history'
               /\ Len(history') > 0
     /\ (ResetReturned /\ reset.ok)
          => (storage' = storage /\ history' = <<>>)
    ]_vars

\* C28's case, the state the claim says is reachable: the reset has
\* completed without an error and the in-memory history is empty, yet the
\* persisted log is not: it is the log of the session's start (no
\* classification took a timestamp since) with the note of the edit.
C28_Witness ==
  /\ reset.pc = "idle"
  /\ historyLoad.pc = "done"
  /\ consoleErrors = {}
  /\ clock = BULK_HISTORY_CAP + 1
  /\ history = <<>>
  /\ Len(PersistedSingle) = PREDICTION_HISTORY_CAP
  /\ PersistedSingle[1].note = "seen"

\* --------------------------------------------------------------------- C29

\* The model name, the grayscale flag and the timestamp of a record.
Stamp(results) ==
  [modelName |-> results.modelName, isGrayscale |-> results.isGrayscale,
   timestamp |-> results.timestamp]

DeletedByTimestamp(record) == DeleteHistoryItem(record.timestamp, TRUE)

\* The step is the served write of a commit that evicts the last record of
\* a persisted log at its cap: the other records move down by one.
EvictedByCap(k) ==
  /\ k = BULK_HISTORY_CAP
  /\ Len(PersistedBulk') = BULK_HISTORY_CAP
  /\ \E r \in 1..Len(runs) : CommitRead(r) /\ runs'[r].writeOk
  /\ \A j \in 1..(BULK_HISTORY_CAP - 1) : PersistedBulk'[j + 1] = PersistedBulk[j]

\* No storage call has failed and the load at mount has settled: the
\* in-memory bulk log can differ from the persisted one only through the
\* interleaving of commits and deletions.
NoFailureSoFar ==
  /\ alerts = {}
  /\ consoleErrors = {}
  /\ bulkHistoryLoad.pc = "done"

\* C30 as stated: as long as no storage call has failed, in every step each
\* record of the persisted bulk log stays in it unless the step deletes it
\* by its timestamp or evicts it by the cap; and each record of the
\* persisted log after the step was in it before or is the record the step
\* commits.
C30_CommittedRecordsStay ==
  [][NoFailureSoFar =>
     /\ \A k \in 1..Len(PersistedBulk) :
          \/ PersistedBulk[k] \in Range(PersistedBulk')
          \/ DeletedByTimestamp(PersistedBulk[k])
          \/ EvictedByCap(k)
     /\ \A j \in 1..Len(PersistedBulk') :
          \/ PersistedBulk'[j] \in Range(PersistedBulk)
          \/ \E r \in 1..Len(runs) :
               /\ CommitRead(r) /\ runs'[r].writeOk
               /\ j = 1
               /\ PersistedBulk'[j] = JsonBulkRecord(runs[r].results)
    ]_vars

\* --------------------------------------------------------------------- C31

\* The runs that are in their loop over the assets (293-333).
ProcessingItems == {r \in 1..Len(runs) : runs[r].pc \in {"fetchImage", "predict"}}

\* C31: at most one bulk run is in its loop over the items, and bulkLoading
\* is true exactly while one is; a step taken while bulkLoading is true
\* neither starts a run nor handles a press of the picker's button; and a
\* step taken while no batch is selected starts no run.
C31_OneRunProcessesItems ==
  /\ [](/\ Cardinality(ProcessingItems) <= 1
        /\ bulkLoading <=> ProcessingItems # {})
  /\ [][/\ bulkLoading =>
             /\ Len(runs') = Len(runs)
             /\ ~(\E n \in 1..MaxItems : PickBulkImages(n))
        /\ bulkImages = <<>> => Len(runs') = Len(runs)]_vars

\* C31's case: a second run is in its loop while the first, its loop over,
\* is committing its record.
C31_Witness ==
  /\ Len(runs) = 2
  /\ runs[1].pc \in {"getItem", "setItem"}
  /\ runs[2].pc \in {"fetchImage", "predict"}
  /\ bulkLoading

\* --------------------------------------------------------------------- C32

\* C32: at every point of every bulk run, the counter of each class is the
\* number of samples recorded for it, and a mean confidence that is not 0,
\* in the run's record or in the result shown, goes with a counter that is
\* not 0.
C32_CounterIsNumberOfSamples ==
  /\ \A r \in 1..Len(runs) : \A key \in ClassKeys :
       /\ runs[r].results[key] = Len(runs[r].accuracies[key])
       /\ MeanOf(runs[r].results, key) # 0 => runs[r].results[key] # 0
  /\ \A k \in 1..Len(bulkPrediction) : \A key \in ClassKeys :
       MeanOf(bulkPrediction[k], key) # 0 => bulkPrediction[k][key] # 0

\* C32's case: the loop of a run of three items has ended; one item was
\* answered 'Glioma', one with a label that is none of the four and one
\* failed: one sample and a mean of 90% for Glioma, nothing for the others.
C32_Witness ==
  \E r \in 1..Len(runs) :
    /\ runs[r].pc = "getItem"
    /\ Len(runs[r].assets) = 3
    /\ runs[r].otherLabel = 1 /\ runs[r].failed = 1
    /\ runs[r].results.glioma = 1
    /\ runs[r].accuracies.glioma = <<900000>>
    /\ runs[r].results.gliomaAccuracy = 9000
    /\ runs[r].results.noTumor = 0 /\ runs[r].results.noTumorAccuracy = 0

\* --------------------------------------------------------------------- C33

\* C33: in every bulk run, every classification request sent so far carries
\* the grayscale flag of the run's record and the resolution of the run's
\* first request, whatever the user has done to the switch and to the
\* resolution list meanwhile.
C33_RecordFlagIsFlagSent ==
  \A r \in 1..Len(runs) : \A k \in 1..Len(runs[r].posted) :
    /\ runs[r].posted[k].isGrayscale = runs[r].results.isGrayscale
    /\ runs[r].posted[k].resolution = runs[r].posted[1].resolution

\* C33's case: the first request of a run has been answered and the second
\* is about to be sent, the user having flipped the switch and chosen
\* another resolution since the run started.
C33_Witness ==
  \E r \in 1..Len(runs) :
    /\ runs[r].pc = "fetchImage" /\ runs[r].i = 2
    /\ Len(runs[r].posted) = 1
    /\ isGrayscaleEnabled # runs[r].results.isGrayscale
    /\ selectedResolution # runs[r].posted[1].resolution

\* --------------------------------------------------------------------- C34

\* Every line shows, next to its class name, the count and the mean
\* confidence the record has for that class.
ShowsItsClass(lines, record) ==
  \A k \in 1..Len(lines) :
    /\ lines[k].count = record[KeyOf(lines[k].label)]
    /\ lines[k].accuracy = MeanOf(record, KeyOf(lines[k].label))

\* C34 as stated: the lines of the bulk result view show the counts and the
\* means of bulkPrediction class by class, and the lines of every item of
\* the history view those of its record.
C34_ShownValuesAreOfTheirClass ==
  /\ BulkResultView # <<>> => ShowsItsClass(BulkResultView, bulkPrediction[1])
  /\ \A k \in 1..Len(HistoryView) :
       ShowsItsClass(HistoryView[k], bulkPredictionHistory[k])

\* --------------------------------------------------------------------- C35

\* The classification call of section index is outstanding: uploadImage is
\* awaiting the read of the image or the answer of /predict.
Classifying(index) == uploads[index].pc \in {"fetchImage", "predict"}

\* Section index exists and shows its loading flag.
SectionLoading(index) ==
  index \in 1..Len(sections) /\ sections[index].isLoading

\* C35 as stated: whenever a section's loading flag is set while no
\* classification call of that section is outstanding, the flag is
\* eventually false; and the step that completes the classification call of
\* one section with a 2xx answer (so that the sections stay on the screen,
\* no error view replacing them) leaves the prediction stored in every
\* other section as it was.
C35_SectionsIndependent ==
  /\ \A index \in 1..MAX_SECTIONS :
       (SectionLoading(index) /\ ~Classifying(index))
         ~> ~SectionLoading(index)
  /\ [][\A other \in 1..MAX_SECTIONS :
          (Classifying(other) /\ ~Classifying(other)' /\ error' = "")
            => \A index \in (1..Len(sections)) \ {other} :
                 sections[index].prediction # <<>>
                   => /\ index \in 1..Len(sections')
                      /\ sections'[index].prediction
                           = sections[index].prediction]_vars

====
